---- MODULE Spec2Model ----
(***************************************************************************)
(* A model of modulefinder_revamped.ModuleFinder: the import-resolution    *)
(* engine (_scan_code, _MFLoader.exec_module, ModuleFinder.import_as_module*)
(* driving importlib.__import__) and the classifier any_missing_maybe.     *)
(*                                                                         *)
(* A dotted module name is modelled as the sequence of its components:     *)
(* "a.b.c" is <<"a","b","c">> and the empty string is << >>.  So           *)
(* `"." in name` is Len(name) >= 2, name.rpartition(".")[0] is Front(name) *)
(* and f"{name}.{item}" is Append(name, item).                             *)
(***************************************************************************)
EXTENDS Integers, Sequences, FiniteSets, TLC

VARIABLES
    tree,         \* the file tree and builtins the Finder/Loader sees (fixed per session)
    excludes,     \* ModuleFinder.excludes
    modules,      \* ModuleFinder.modules, the stand-in for sys.modules: name -> MFModuleType
    bad_modules,  \* ModuleFinder.bad_modules: name -> set of importers
    key_order,    \* the keys of bad_modules in the order of the dict: that of insertion
    stack,        \* the Python call stack of the running public operation
    ret,          \* the value returned / exception raised by the frame that just ended
    calls,        \* public operations started so far in this session
    outcome,      \* how the last public operation ended
    report,       \* the last result of any_missing_maybe
    analyzed,     \* name -> number of times _scan_code ran on the code of that name
    looked_up,    \* names the finders were asked for
    in_cycle,     \* names imported again while their own load was in progress, and
                  \* the modules that imported them then
    history,      \* one snapshot of the session per public operation that has ended
    processed,    \* the import directives _scan_code has dealt with, and how each ended
    sys,          \* the attributes of the host's sys module that _patch_sys overrides
    lock,         \* the holder of ModuleFinder.__sys_patch_lock, or NoThread
    threads,      \* per thread: its position in a public operation of its own session
    dicts,        \* the keys of the host's module cache and of each session's modules
    path_replacements,  \* ModuleFinder.path_replacements: list of (old_path, new_path)
    source_code,  \* the code object loader.get_code returned for the unit being loaded
    module_code   \* module.__code__ of the unit being loaded

\* the interpreter state shared by all sessions and threads
host == <<sys, lock, threads, dicts>>

\* the path rewriting of a session and the code object it is applied to
location == <<path_replacements, source_code, module_code>>

vars == <<tree, excludes, modules, bad_modules, key_order, stack, ret, calls, outcome,
          report, analyzed, looked_up, in_cycle, history, processed, host,
          location>>

-----------------------------------------------------------------------------
(* Bounds of the model. *)

\* public operations per session
MaxCalls == 2
\* depth of the call stack at which the model stops descending (Python stops a
\* runaway recursion with RecursionError)
MaxDepth == 40
\* threads, each running the public operations of a session of its own
MaxThreads == 2
\* public operations per thread
MaxOps == 2
\* characters of a file name
MaxPath == 4
\* rules in path_replacements
MaxRules == 2

-----------------------------------------------------------------------------
(* Names. *)

Front(s) == SubSeq(s, 1, Len(s) - 1)
Last(s) == s[Len(s)]
SeqToSet(s) == {s[i] : i \in 1..Len(s)}

\* The simple names in ascending order of str comparison.
NameOrder == <<"a", "b", "blahblah", "c", "foo", "k", "m", "module", "mymodule", "p",
               "q", "s", "sillyname", "something", "sys", "version_info", "x", "z">>
Rank(x) == CHOOSE i \in 1..Len(NameOrder) : NameOrder[i] = x

\* str.__lt__ on dotted names: "." sorts below every identifier character, so
\* the comparison is lexicographic on components and a proper prefix is smaller.
RECURSIVE NameLess(_, _)
NameLess(p, q) ==
    IF p = << >> THEN q # << >>
    ELSE IF q = << >> THEN FALSE
    ELSE IF Head(p) = Head(q) THEN NameLess(Tail(p), Tail(q))
    ELSE Rank(Head(p)) < Rank(Head(q))

\* list.sort() without effect: the list stays in the order of its appends
sort_NotDone(list) == list

\* list.sort(): each name in turn is put behind the names that are not greater
RECURSIVE sort(_)
sort(list) ==
    IF list = << >> THEN << >>
    ELSE LET sorted == sort(SubSeq(list, 1, Len(list) - 1))
             x == list[Len(list)]
             k == Cardinality({i \in 1..Len(sorted) : ~NameLess(x, sorted[i])})
         IN  SubSeq(sorted, 1, k) \o <<x>> \o SubSeq(sorted, k + 1, Len(sorted))

\* the names of the set S in ascending order
RECURSIVE SortNames(_)
SortNames(S) ==
    IF S = {} THEN << >>
    ELSE LET least == CHOOSE x \in S : \A y \in S \ {x} : NameLess(x, y)
         IN  <<least>> \o SortNames(S \ {least})

-----------------------------------------------------------------------------
(* What the Source analyzer yields for a code object.                      *)
(*                                                                         *)
(* _scan_opcodes yields every stored name of a code object, then every     *)
(* import of it; _scan_code then recurses into the nested code objects in  *)
(* co_consts.  A module's code is therefore modelled as the pre-order      *)
(* sequence of its code objects ("blocks"), each with its stored names and *)
(* its import directives (name, fromlist, level).  A fromlist of None is   *)
(* the empty sequence: _scan_code treats both alike.                       *)

Directive(name, fromlist, level) ==
    [name |-> name, fromlist |-> fromlist, level |-> level]

\* The names an import statement binds at module level (its STORE_NAMEs).
BoundBy(d) ==
    IF d.fromlist = << >>
        THEN (IF d.name = << >> THEN {} ELSE {Head(d.name)})
        ELSE SeqToSet(d.fromlist) \ {"*"}

\* the code object of a module body
ModuleBlock(own, imports) ==
    [stores  |-> own \cup UNION {BoundBy(imports[i]) : i \in 1..Len(imports)},
     imports |-> imports]

\* the code object of a function body: its imports bind locals, not globals
FunctionBlock(imports) == [stores |-> {}, imports |-> imports]

NoCode == << >>

-----------------------------------------------------------------------------
(* The file trees of the model.  A unit is a source module, a package      *)
(* (directory with __init__), a builtin (no code: get_code returns None)   *)
(* or a broken source file (get_code raises SyntaxError).                  *)

Unit(kind, code) == [kind |-> kind, code |-> code]

\* a/__init__.py
InitA == <<
    \* def foo(): pass
    <<ModuleBlock({"foo"}, << >>)>>,
    \* import c; from a import s
    <<ModuleBlock({}, <<Directive(<<"c">>, << >>, 0),
                        Directive(<<"a">>, <<"s">>, 0)>>)>>,
    \* from sys import *; from . import z
    <<ModuleBlock({}, <<Directive(<<"sys">>, <<"*">>, 0),
                        Directive(<< >>, <<"z">>, 1)>>)>>
>>

\* a/m.py
CodeM == <<
    \* import sys; from a import foo, z; import b.q
    <<ModuleBlock({}, <<Directive(<<"sys">>, << >>, 0),
                        Directive(<<"a">>, <<"foo", "z">>, 0),
                        Directive(<<"b", "q">>, << >>, 0)>>)>>,
    \* import c; from b import c, k, q
    <<ModuleBlock({}, <<Directive(<<"c">>, << >>, 0),
                        Directive(<<"b">>, <<"c", "k", "q">>, 0)>>)>>,
    \* from . import s; from .s import *; from ..z import q
    <<ModuleBlock({}, <<Directive(<< >>, <<"s">>, 1),
                        Directive(<<"s">>, <<"*">>, 1),
                        Directive(<<"z">>, <<"q">>, 2)>>)>>,
    \* from b import *; from b import k, c; def f(): from a.p import q
    <<ModuleBlock({"f"}, <<Directive(<<"b">>, <<"*">>, 0),
                           Directive(<<"b">>, <<"k", "c">>, 0)>>),
      FunctionBlock(<<Directive(<<"a", "p">>, <<"q">>, 0)>>)>>
>>

\* a/s.py, when it is a well-formed source file:
\* t = 1; from a.m import *; from . import m
CodeS == <<ModuleBlock({"t"}, <<Directive(<<"a", "m">>, <<"*">>, 0),
                                Directive(<< >>, <<"m">>, 1)>>)>>
KindS == <<"absent", "broken", "module">>

\* b/__init__.py
InitB == <<
    \* k = 1
    <<ModuleBlock({"k"}, << >>)>>,
    \* from sys import *; import c; def f(): from . import q
    <<ModuleBlock({"f"}, <<Directive(<<"sys">>, <<"*">>, 0),
                           Directive(<<"c">>, << >>, 0)>>),
      FunctionBlock(<<Directive(<< >>, <<"q">>, 1)>>)>>,
    \* from . import c; from a import m
    <<ModuleBlock({}, <<Directive(<< >>, <<"c">>, 1),
                        Directive(<<"a">>, <<"m">>, 0)>>)>>
>>

\* b/c.py: v = 1; import b.c; import b.c.sys
CodeBC == <<ModuleBlock({"v"}, <<Directive(<<"b", "c">>, << >>, 0),
                                 Directive(<<"b", "c", "sys">>, << >>, 0)>>)>>

\* a/p/__init__.py: from .. import m
InitAP == <<ModuleBlock({}, <<Directive(<< >>, <<"m">>, 2)>>)>>

\* a/p/q.py: from .. import foo; from ... import s
CodeAPQ == <<ModuleBlock({}, <<Directive(<< >>, <<"foo">>, 2),
                               Directive(<< >>, <<"s">>, 3)>>)>>

Trees == [a : 1..Len(InitA), m : 1..Len(CodeM), s : 1..Len(KindS), b : 1..Len(InitB)]

\* The units of tree t: qualified name -> unit.  sys is a builtin; b/k.py does
\* not compile; there is no top-level c, z, foo, ... and no a/z, b/q.
TreeUnits(t) ==
    LET fixed ==
            (<<"sys">> :> Unit("builtin", NoCode)) @@
            (<<"a">> :> Unit("package", InitA[t.a])) @@
            (<<"a", "m">> :> Unit("module", CodeM[t.m])) @@
            (<<"a", "p">> :> Unit("package", InitAP)) @@
            (<<"a", "p", "q">> :> Unit("module", CodeAPQ)) @@
            (<<"b">> :> Unit("package", InitB[t.b])) @@
            (<<"b", "c">> :> Unit("module", CodeBC)) @@
            (<<"b", "k">> :> Unit("broken", NoCode))
    IN  IF KindS[t.s] = "absent" THEN fixed
        ELSE (<<"a", "s">> :> Unit(KindS[t.s],
                                   IF KindS[t.s] = "module" THEN CodeS ELSE NoCode)) @@ fixed

\* The file trees of test_e2e[package] and test_e2e[maybe].  `import m as n`
\* and `from m import b as n` store n.
PackageUnits ==
    (<<"sys">> :> Unit("builtin", NoCode)) @@
    (<<"mymodule">> :> Unit("module", <<ModuleBlock({}, << >>)>>)) @@
    \* import blahblah; from a import b; import c
    (<<"a">> :> Unit("package",
        <<ModuleBlock({}, <<Directive(<<"blahblah">>, << >>, 0),
                            Directive(<<"a">>, <<"b">>, 0),
                            Directive(<<"c">>, << >>, 0)>>)>>)) @@
    \* import sys; from a import b as x; from a.c import sillyname
    (<<"a", "module">> :> Unit("module",
        <<[stores  |-> {"sys", "x", "sillyname"},
           imports |-> <<Directive(<<"sys">>, << >>, 0),
                         Directive(<<"a">>, <<"b">>, 0),
                         Directive(<<"a", "c">>, <<"sillyname">>, 0)>>]>>)) @@
    (<<"a", "b">> :> Unit("module", <<ModuleBlock({}, << >>)>>)) @@
    \* from a.module import x; import mymodule as sillyname; from sys import version_info
    (<<"a", "c">> :> Unit("module",
        <<[stores  |-> {"x", "sillyname", "version_info"},
           imports |-> <<Directive(<<"a", "module">>, <<"x">>, 0),
                         Directive(<<"mymodule">>, << >>, 0),
                         Directive(<<"sys">>, <<"version_info">>, 0)>>]>>))

MaybeUnits ==
    (<<"sys">> :> Unit("builtin", NoCode)) @@
    (<<"a">> :> Unit("package", <<ModuleBlock({}, << >>)>>)) @@
    \* from b import something; from c import something
    (<<"a", "module">> :> Unit("module",
        <<ModuleBlock({}, <<Directive(<<"b">>, <<"something">>, 0),
                            Directive(<<"c">>, <<"something">>, 0)>>)>>)) @@
    \* from sys import *
    (<<"b">> :> Unit("package",
        <<ModuleBlock({}, <<Directive(<<"sys">>, <<"*">>, 0)>>)>>))

\* A tree whose a.module and a.s import each other, a.module star-importing b
\* after a.s has star-imported a.module.
CycleUnits ==
    (<<"a">> :> Unit("package", <<ModuleBlock({}, << >>)>>)) @@
    \* from . import s; from b import *
    (<<"a", "module">> :> Unit("module",
        <<ModuleBlock({}, <<Directive(<< >>, <<"s">>, 1),
                            Directive(<<"b">>, <<"*">>, 0)>>)>>)) @@
    \* t = 1; from a.module import *
    (<<"a", "s">> :> Unit("module",
        <<ModuleBlock({"t"}, <<Directive(<<"a", "module">>, <<"*">>, 0)>>)>>)) @@
    \* k = 1
    (<<"b">> :> Unit("package", <<ModuleBlock({"k"}, << >>)>>))

Scenarios == {"package", "maybe", "cycle"}

\* a tree is one of Trees, or the tree of a scenario
Units(t) ==
    IF DOMAIN t # {"scenario"} THEN TreeUnits(t)
    ELSE IF t.scenario = "package" THEN PackageUnits
    ELSE IF t.scenario = "maybe" THEN MaybeUnits
    ELSE CycleUnits

\* the names a public operation is asked to import
Entries == {<<"a", "m">>, <<"a", "p", "q">>, <<"b", "k">>, <<"z">>}

\* the exclude lists a session is built with
ExcludeChoices == {{}, {<<"b">>, <<"c">>}}

-----------------------------------------------------------------------------
(* Module records, return values and frames. *)

\* module_from_spec that leaves __path__ unset
NewModule_PathLater(name, unit) ==
    [path    |-> FALSE,
     package |-> IF unit.kind = "package" THEN name ELSE Front(name),
     code    |-> "unset",
     gnames  |-> {},
     stars   |-> {},
     attrs   |-> {}]

\* MFModuleType(spec.name) after module_from_spec: __path__ is set iff the spec
\* has submodule search locations, __package__ is spec.parent.  code is
\* "unset" until exec_module runs, then "None" or "code".  attrs are the
\* submodules importlib has bound on the module with setattr.
NewModule(name, unit) ==
    [path    |-> unit.kind = "package",
     package |-> IF unit.kind = "package" THEN name ELSE Front(name),
     code    |-> "unset",
     gnames  |-> {},
     stars   |-> {},
     attrs   |-> {}]

NoValue == [kind |-> "none", name |-> << >>]
Returned(name) == [kind |-> "module", name |-> name]
Raise(exc, name) == [kind |-> exc, name |-> name]
Exceptions == {"ModuleNotFoundError", "ImportError", "SyntaxError", "TypeError"}
Raised(r) == r.kind \in Exceptions

Frame(fn, pc, name) ==
    [fn |-> fn, pc |-> pc, name |-> name, fromlist |-> << >>, i |-> 1, blk |-> 1,
     target |-> << >>]

Top == Head(stack)
Running(fn, pc) == stack # << >> /\ Top.fn = fn /\ Top.pc = pc
CanCall == Len(stack) < MaxDepth
Call(callee, caller) == <<callee, caller>> \o Tail(stack)
Goto(frame) == <<frame>> \o Tail(stack)
Return == Tail(stack)

Remove(f, key) == [k \in DOMAIN f \ {key} |-> f[k]]

\* d.setdefault(key, set()).add(member)
AddTo(d, key, member) ==
    IF key \in DOMAIN d THEN [d EXCEPT ![key] = @ \cup {member}]
    ELSE (key :> {member}) @@ d

-----------------------------------------------------------------------------
(* importlib.util.resolve_name("." * level + name, package), as _scan_code *)
(* calls it with package = _calc___package__(module.__dict__), which is    *)
(* the module's __package__.                                               *)

ResolveFails(package, level) == package = << >> \/ Len(package) < level

\* resolve_name that takes `level` components off the package, as if the
\* package were the importing module's own name
resolve_name_StripsLevel(name, package, level) ==
    SubSeq(package, 1, Len(package) - level) \o name

\* bits = package.rsplit(".", level - 1); base = bits[0]
resolve_name(name, package, level) ==
    SubSeq(package, 1, Len(package) - (level - 1)) \o name

-----------------------------------------------------------------------------
(* ModuleFinder.any_missing_maybe *)

\* Classify with the registry lookup result unused: a name whose package is
\* not registered falls through without being listed.
Classify_UnknownPackageDropped(mods, bad, name) ==
    IF Len(name) < 2 THEN "missing"
    ELSE LET pkgname == Front(name)
             subname == Last(name)
         IN  IF pkgname \in DOMAIN mods
                 THEN IF pkgname \in bad[name] THEN "missing"
                      ELSE IF subname \in mods[pkgname].gnames THEN "neither"
                      ELSE IF mods[pkgname].stars # {} THEN "maybe"
                      ELSE "missing"
                 ELSE "neither"

\* Classify with the global-name test made before the own-importer test.
Classify_GlobalsFirst(mods, bad, name) ==
    IF Len(name) < 2 THEN "missing"
    ELSE LET pkgname == Front(name)
             subname == Last(name)
         IN  IF pkgname \in DOMAIN mods
                 THEN IF subname \in mods[pkgname].gnames THEN "neither"
                      ELSE IF pkgname \in bad[name] THEN "missing"
                      ELSE IF mods[pkgname].stars # {} THEN "maybe"
                      ELSE "missing"
                 ELSE "missing"

\* Classify with the star-import test made before the global-name test.
Classify_StarsFirst(mods, bad, name) ==
    IF Len(name) < 2 THEN "missing"
    ELSE LET pkgname == Front(name)
             subname == Last(name)
         IN  IF pkgname \in DOMAIN mods
                 THEN IF pkgname \in bad[name] THEN "missing"
                      ELSE IF mods[pkgname].stars # {} THEN "maybe"
                      ELSE IF subname \in mods[pkgname].gnames THEN "neither"
                      ELSE "missing"
                 ELSE "missing"

\* Classify without the own-importer test.
Classify_NoOwnImporter(mods, bad, name) ==
    IF Len(name) < 2 THEN "missing"
    ELSE LET pkgname == Front(name)
             subname == Last(name)
         IN  IF pkgname \in DOMAIN mods
                 THEN IF subname \in mods[pkgname].gnames THEN "neither"
                      ELSE IF mods[pkgname].stars # {} THEN "maybe"
                      ELSE "missing"
                 ELSE "missing"

\* Classify without the star-import test.
Classify_NoStars(mods, bad, name) ==
    IF Len(name) < 2 THEN "missing"
    ELSE LET pkgname == Front(name)
             subname == Last(name)
         IN  IF pkgname \in DOMAIN mods
                 THEN IF pkgname \in bad[name] THEN "missing"
                      ELSE IF subname \in mods[pkgname].gnames THEN "neither"
                      ELSE "missing"
                 ELSE "missing"

\* the body of the loop over bad_modules, for a name that is not excluded
Classify(mods, bad, name) ==
    IF Len(name) < 2 THEN "missing"
    ELSE LET pkgname == Front(name)
             subname == Last(name)
         IN  IF pkgname \in DOMAIN mods
                 THEN IF pkgname \in bad[name] THEN "missing"
                      ELSE IF subname \in mods[pkgname].gnames THEN "neither"
                      ELSE IF mods[pkgname].stars # {} THEN "maybe"
                      ELSE "missing"
                 ELSE "missing"

\* the loop over bad_modules without the test of excludes
Considered_NoExcludes(bad, excl) == DOMAIN bad

\* `if name in self.excludes: continue`
Considered(bad, excl) == {name \in DOMAIN bad : name \notin excl}

\* `for name in self.bad_modules`: the keys in the order of the dict, each
\* appended to one list or to none; then missing.sort() and maybe.sort()
any_missing_maybe(mods, bad, order, excl) ==
    LET appended(as) ==
            SelectSeq(order, LAMBDA n : n \in Considered(bad, excl) /\ Classify(mods, bad, n) = as)
    IN  [missing |-> sort(appended("missing")),
         maybe   |-> sort(appended("maybe"))]

-----------------------------------------------------------------------------
(* The host interpreter: the sys attributes that ModuleFinder._patch_sys   *)
(* overrides, the class-level lock, and the threads that call the public   *)
(* operations, each on a ModuleFinder of its own.  A value of a sys        *)
(* attribute is the identity of the object it is bound to.                 *)

\* the with-items of _patch_sys after the lock, in the order they are entered
PatchedAttrs == <<"modules", "path", "meta_path", "path_hooks", "path_importer_cache">>

Threads == 1..MaxThreads
NoThread == 0

\* the objects the host's sys module holds when no session has patched it
HostSys == [a \in SeqToSet(PatchedAttrs) |-> <<"host">>]

\* _patch_sys of a ModuleFinder whose modules, path and meta_path are those of
\* the first session, whatever the session
PatchValue_SharedBySessions(t, attr) ==
    IF attr \in {"path_hooks", "path_importer_cache"} THEN <<"copy", t>> ELSE <<"self", 1>>

\* the new_value of each _patch_attr of the session of thread t: self.modules,
\* self.path, self.meta_path, list(sys.path_hooks), dict(sys.path_importer_cache)
PatchValue(t, attr) ==
    IF attr \in {"path_hooks", "path_importer_cache"} THEN <<"copy", t>> ELSE <<"self", t>>

\* the public operations: import_as_module, and import_as_file / run_as_script
\* (both are _import_from_file)
Operations == {"import_as_module", "_import_from_file"}

\* pc: the position in the operation; k: the with-item being entered or left;
\* old: the old_value of each _patch_attr entered so far; before: sys as it was
\* when the with statement was entered; raised: how the body ended
IdleThread ==
    [pc |-> "idle", op |-> "none", k |-> 0, old |-> << >>, before |-> HostSys,
     raised |-> FALSE, ops |-> 0]

\* the keys of each module cache (<<"host">>, or <<"self", t>> for the modules
\* of the session of thread t): the sessions that have registered a module in
\* it; NoThread stands for the modules the host itself has imported.  And the
\* keys of each bad_modules (<<"bad", t>> for that of the session of thread t):
\* the sessions whose operation has put a failure record in it.
HostDicts == [d \in {<<"host">>} \cup {<<"self", t>> : t \in Threads}
                                 \cup {<<"bad", t>> : t \in Threads} |->
                 IF d = <<"host">> THEN {NoThread} ELSE {}]

\* mf.bad_modules in _scan_code: mf is spec.loader_state["mf"], the session of
\* the _MFFinder that found the spec, that is of the finders sys.meta_path is
\* bound to; the host's finders inject no session
BadModulesOf(meta_path) ==
    IF meta_path = <<"host">> THEN {} ELSE {<<"bad", meta_path[2]>>}

-----------------------------------------------------------------------------
(* File names and their rewriting.  A file name is a str, modelled as the   *)
(* sequence of its characters.                                              *)

Chars == {"/", ".", "a", "b"}
sep == "/"
dot == <<".">>
dotdot == <<".", ".">>

\* str.startswith(prefix)
startswith(str, prefix) ==
    Len(prefix) <= Len(str) /\ SubSeq(str, 1, Len(prefix)) = prefix

\* str.find(sub): the lowest index (from 0) at which sub occurs in str, or -1
find(str, sub) ==
    LET at == {i \in 0..(Len(str) - Len(sub)) : SubSeq(str, i + 1, i + Len(sub)) = sub}
    IN  IF at = {} THEN -1 ELSE CHOOSE i \in at : \A j \in at : i <= j

\* str.replace(old, new, 1): the first occurrence of old replaced by new
replace(str, old, new) ==
    LET i == find(str, old)
    IN  IF i = -1 THEN str
        ELSE SubSeq(str, 1, i) \o new \o SubSeq(str, i + Len(old) + 1, Len(str))

\* str.split(sep), sep.join(comps)
RECURSIVE split(_)
split(str) ==
    LET i == find(str, <<sep>>)
    IN  IF i = -1 THEN <<str>>
        ELSE <<SubSeq(str, 1, i)>> \o split(SubSeq(str, i + 2, Len(str)))

RECURSIVE join(_)
join(comps) ==
    IF comps = << >> THEN << >>
    ELSE IF Len(comps) = 1 THEN comps[1]
    ELSE comps[1] \o <<sep>> \o join(Tail(comps))

\* the loop of posixpath.normpath over the components of the path
RECURSIVE new_comps(_, _, _)
new_comps(comps, so_far, initial_slashes) ==
    IF comps = << >> THEN so_far
    ELSE LET comp == Head(comps)
         IN  IF comp = << >> \/ comp = dot
                 THEN new_comps(Tail(comps), so_far, initial_slashes)
             ELSE IF \/ comp # dotdot
                     \/ (initial_slashes = 0 /\ so_far = << >>)
                     \/ (so_far # << >> /\ so_far[Len(so_far)] = dotdot)
                 THEN new_comps(Tail(comps), Append(so_far, comp), initial_slashes)
             ELSE IF so_far # << >>
                 THEN new_comps(Tail(comps), SubSeq(so_far, 1, Len(so_far) - 1), initial_slashes)
             ELSE new_comps(Tail(comps), so_far, initial_slashes)

\* os.path.normpath (posixpath): empty and "." components dropped, ".."
\* resolved against the component before it, one or two leading slashes kept
normpath(path) ==
    IF path = << >> THEN dot
    ELSE LET initial_slashes ==
                 IF ~startswith(path, <<sep>>) THEN 0
                 ELSE IF startswith(path, <<sep, sep>>) /\ ~startswith(path, <<sep, sep, sep>>)
                     THEN 2
                 ELSE 1
             joined == join(new_comps(split(path), << >>, initial_slashes))
             slashed == [i \in 1..initial_slashes |-> sep] \o joined
         IN  IF slashed = << >> THEN dot ELSE slashed

\* a code object: its file name and its constants, among them the code
\* objects of the functions and classes defined in it (with the same file name)
Constant == [value |-> "None"]
IsCode(const) == "co_filename" \in DOMAIN const
CodeObject(filename) ==
    [co_filename |-> filename,
     co_consts   |-> <<Constant, [co_filename |-> filename, co_consts |-> <<Constant>>]>>]
NoCodeObject == [co_filename |-> << >>, co_consts |-> << >>]

\* _replace_paths_in_code whose loop has no break: the last rule that matches
\* is the one applied
new_filename_NoBreak(original_filename, rules) ==
    LET matching == {k \in 1..Len(rules) : startswith(original_filename, rules[k][1])}
    IN  IF matching = {} THEN original_filename
        ELSE LET k == CHOOSE i \in matching : \A j \in matching : j <= i
             IN  replace(original_filename, rules[k][1], rules[k][2])

\* for old_path, new_path in path_replacements:
\*     if original_filename.startswith(old_path):
\*         new_filename = original_filename.replace(old_path, new_path, 1)
\*         break
\* else:
\*     new_filename = original_filename
RECURSIVE new_filename(_, _)
new_filename(original_filename, rules) ==
    IF rules = << >> THEN original_filename
    ELSE IF startswith(original_filename, Head(rules)[1])
        THEN replace(original_filename, Head(rules)[1], Head(rules)[2])
    ELSE new_filename(original_filename, Tail(rules))

\* _replace_paths_in_code(code, path_replacements): the file name of the code
\* object and of every code object among its constants
RECURSIVE replace_paths_in_code(_, _)
replace_paths_in_code(code, rules) ==
    [co_filename |-> new_filename(normpath(code.co_filename), rules),
     co_consts   |-> [i \in 1..Len(code.co_consts) |->
                         IF IsCode(code.co_consts[i])
                             THEN replace_paths_in_code(code.co_consts[i], rules)
                             ELSE code.co_consts[i]]]

\* a session without path_replacements, and no unit whose file name is followed
NoRewriting ==
    /\ path_replacements = << >>
    /\ source_code = NoCodeObject
    /\ module_code = NoCodeObject

-----------------------------------------------------------------------------
(* The session. *)

\* The lists of a report are those of the session as it is now; starting another
\* public operation makes them stale.
NoReport == [valid |-> FALSE, missing |-> << >>, maybe |-> << >>]

\* ModuleFinder.__init__
Init ==
    /\ tree \in Trees
    /\ excludes \in ExcludeChoices
    /\ modules = << >>
    /\ bad_modules = << >>
    /\ key_order = << >>
    /\ stack = << >>
    /\ ret = NoValue
    /\ calls = 0
    /\ outcome = NoValue
    /\ report = NoReport
    /\ analyzed = << >>
    /\ looked_up = {}
    /\ in_cycle = {}
    /\ history = << >>
    /\ processed = {}
    /\ sys = HostSys
    /\ lock = NoThread
    /\ threads = [t \in Threads |-> IdleThread]
    /\ dicts = HostDicts
    /\ NoRewriting

unchanged_session == <<tree, excludes, calls, outcome, report, history, host,
                       location>>


\* import_as_module patching sys.modules with a new dict instead of the
\* session's modules
ImportAsModule_FreshRegistry(name) ==
    /\ stack = << >>
    /\ calls < MaxCalls
    /\ calls' = calls + 1
    /\ stack' = <<Frame("__import__", "gcd", name), Frame("import_as_module", "ret", name)>>
    /\ ret' = NoValue
    /\ report' = NoReport
    /\ modules' = << >>
    /\ UNCHANGED <<tree, excludes, bad_modules, key_order, outcome, analyzed,
                   looked_up, in_cycle, history, processed, host, location>>

\* ModuleFinder.import_as_module(name): importlib.__import__(name, None, None, None, 0)
\* inside _patch_sys.
ImportAsModule(name) ==
    /\ stack = << >>
    /\ calls < MaxCalls
    /\ calls' = calls + 1
    /\ stack' = <<Frame("__import__", "gcd", name), Frame("import_as_module", "ret", name)>>
    /\ ret' = NoValue
    /\ report' = NoReport
    /\ UNCHANGED <<tree, excludes, modules, bad_modules, key_order, outcome, analyzed,
                   looked_up, in_cycle, history, processed, host, location>>

\* a fromlist item that is not a str (an int, None, bytes, ...)
NonString == "<not a str>"

\* ModuleFinder.import_as_module(name, None, fromlist, 0):
\* importlib.__import__(name, None, None, fromlist, 0) inside _patch_sys.
ImportAsModuleFromlist(name, fromlist) ==
    /\ stack = << >>
    /\ calls < MaxCalls
    /\ calls' = calls + 1
    /\ stack' = <<[Frame("__import__", "gcd", name) EXCEPT !.fromlist = fromlist],
                  [Frame("import_as_module", "ret", name) EXCEPT !.fromlist = fromlist]>>
    /\ ret' = NoValue
    /\ report' = NoReport
    /\ UNCHANGED <<tree, excludes, modules, bad_modules, key_order, outcome, analyzed,
                   looked_up, in_cycle, history, processed, host, location>>

\* import_as_module ends: the value or exception of __import__ reaches the caller.
ImportAsModuleEnd ==
    /\ Running("import_as_module", "ret")
    /\ stack' = Return
    /\ outcome' = IF Raised(ret) THEN ret ELSE [kind |-> "returned", name |-> Top.name]
    /\ history' = Append(history, [name |-> Top.name, fromlist |-> Top.fromlist,
                                   raised |-> Raised(ret),
                                   modules |-> modules, bad_modules |-> bad_modules,
                                   analyzed |-> analyzed])
    /\ ret' = NoValue
    /\ UNCHANGED <<tree, excludes, modules, bad_modules, key_order, calls, report, analyzed,
                   looked_up, in_cycle, processed, host, location>>

-----------------------------------------------------------------------------
(* importlib.__import__(name, globals, locals, fromlist, 0) *)

\* module = _gcd_import(name)
ImportCall ==
    /\ Running("__import__", "gcd")
    /\ CanCall
    /\ stack' = Call(Frame("_gcd_import", "start", Top.name), [Top EXCEPT !.pc = "module"])
    /\ UNCHANGED <<modules, bad_modules, key_order, ret, analyzed, looked_up>>
    /\ UNCHANGED <<unchanged_session, in_cycle, processed>>

\* __import__ without the test for __path__: a fromlist is always handed to
\* _handle_fromlist
ImportModule_FromlistAlways ==
    /\ Running("__import__", "module")
    /\ IF Raised(ret)
           THEN stack' = Return /\ ret' = ret
       ELSE IF Top.fromlist = << >>
           THEN /\ CanCall
                /\ stack' = Call(Frame("_gcd_import", "start", <<Head(Top.name)>>),
                                 [Top EXCEPT !.pc = "top"])
                /\ ret' = NoValue
       ELSE stack' = Goto([Top EXCEPT !.pc = "fromlist", !.i = 1]) /\ ret' = NoValue
    /\ UNCHANGED <<modules, bad_modules, key_order, analyzed, looked_up>>
    /\ UNCHANGED <<unchanged_session, in_cycle, processed>>

\* if not fromlist: return _gcd_import(name.partition(".")[0])
\* elif hasattr(module, "__path__"): return _handle_fromlist(module, fromlist, _gcd_import)
\* else: return module
ImportModule ==
    /\ Running("__import__", "module")
    /\ IF Raised(ret)
           THEN stack' = Return /\ ret' = ret
       ELSE IF Top.fromlist = << >>
           THEN /\ CanCall
                /\ stack' = Call(Frame("_gcd_import", "start", <<Head(Top.name)>>),
                                 [Top EXCEPT !.pc = "top"])
                /\ ret' = NoValue
       ELSE IF modules[Top.name].path
           THEN stack' = Goto([Top EXCEPT !.pc = "fromlist", !.i = 1]) /\ ret' = NoValue
       ELSE stack' = Return /\ ret' = Returned(Top.name)
    /\ UNCHANGED <<modules, bad_modules, key_order, analyzed, looked_up>>
    /\ UNCHANGED <<unchanged_session, in_cycle, processed>>

\* the return of _gcd_import(name.partition(".")[0])
ImportTop ==
    /\ Running("__import__", "top")
    /\ stack' = Return
    /\ UNCHANGED <<modules, bad_modules, key_order, ret, analyzed, looked_up>>
    /\ UNCHANGED <<unchanged_session, in_cycle, processed>>

\* _handle_fromlist: for x in fromlist:
\*     if not isinstance(x, str): raise TypeError(...)
\*     ... elif not hasattr(module, x): import_(f"{module.__name__}.{x}")
\* An MFModuleType has no __all__, so "*" does nothing.
HandleFromlist ==
    /\ Running("__import__", "fromlist")
    /\ LET f == Top
           x == f.fromlist[f.i]
       IN  IF f.i > Len(f.fromlist)
               THEN stack' = Return /\ ret' = Returned(f.name)
           ELSE IF x = NonString
               THEN stack' = Return /\ ret' = Raise("TypeError", << >>)
           ELSE IF x = "*" \/ x \in modules[f.name].attrs
               THEN stack' = Goto([f EXCEPT !.i = @ + 1]) /\ ret' = NoValue
           ELSE /\ CanCall
                /\ stack' = Call(Frame("_gcd_import", "start", Append(f.name, x)),
                                 [f EXCEPT !.pc = "item"])
                /\ ret' = NoValue
    /\ UNCHANGED <<modules, bad_modules, key_order, analyzed, looked_up>>
    /\ UNCHANGED <<unchanged_session, in_cycle, processed>>

\* _handle_fromlist without its except clause: every exception of the import
\* of a fromlist item is raised
HandleFromlistItem_Reraises ==
    /\ Running("__import__", "item")
    /\ IF Raised(ret)
           THEN stack' = Return /\ ret' = ret
           ELSE stack' = Goto([Top EXCEPT !.pc = "fromlist", !.i = @ + 1]) /\ ret' = NoValue
    /\ UNCHANGED <<modules, bad_modules, key_order, analyzed, looked_up>>
    /\ UNCHANGED <<unchanged_session, in_cycle, processed>>

\* except ModuleNotFoundError as exc:
\*     if exc.name == from_name and sys.modules.get(from_name, _NEEDS_LOADING) is not None:
\*         continue
\*     raise
HandleFromlistItem ==
    /\ Running("__import__", "item")
    /\ LET f == Top
           from_name == Append(f.name, f.fromlist[f.i])
       IN  IF Raised(ret) /\ ~(ret.kind = "ModuleNotFoundError" /\ ret.name = from_name)
               THEN stack' = Return /\ ret' = ret
               ELSE stack' = Goto([f EXCEPT !.pc = "fromlist", !.i = @ + 1]) /\ ret' = NoValue
    /\ UNCHANGED <<modules, bad_modules, key_order, analyzed, looked_up>>
    /\ UNCHANGED <<unchanged_session, in_cycle, processed>>

-----------------------------------------------------------------------------
(* importlib's _gcd_import(name) = _find_and_load(name), with the session's *)
(* finders (_MFFinder) and loader (_MFLoader) on the patched sys.           *)

\* spec._initializing: the module is in sys.modules and its exec_module has not
\* returned yet
Initializing(name) ==
    \E k \in 1..Len(stack) :
        /\ stack[k].fn = "_gcd_import"
        /\ stack[k].name = name
        /\ stack[k].pc \in {"exec", "loaded"}

\* the module whose scan issued the running import, if any
Importer ==
    LET scans == {k \in 1..Len(stack) : stack[k].fn = "_scan_code"}
    IN  IF scans = {} THEN {}
        ELSE {stack[CHOOSE k \in scans : \A j \in scans : k <= j].name}

\* _find_and_load that returns a name in sys.modules only when its load has
\* ended, and loads a name that is still initializing once more
FindAndLoad_ReloadInitializing ==
    /\ Running("_gcd_import", "start")
    /\ LET f == Top
           parent == Front(f.name)
       IN  IF f.name \in DOMAIN modules /\ ~Initializing(f.name)
               THEN stack' = Return /\ ret' = Returned(f.name)
           ELSE IF parent # << >> /\ parent \notin DOMAIN modules
               THEN /\ CanCall
                    /\ stack' = Call(Frame("_gcd_import", "start", parent),
                                     [f EXCEPT !.pc = "parent"])
                    /\ ret' = NoValue
           ELSE stack' = Goto([f EXCEPT !.pc = "find"]) /\ ret' = NoValue
    /\ in_cycle' = IF Initializing(Top.name) THEN in_cycle \cup {Top.name} \cup Importer
                   ELSE in_cycle
    /\ UNCHANGED <<modules, bad_modules, key_order, analyzed, looked_up>>
    /\ UNCHANGED <<unchanged_session, processed>>

\* _find_and_load that gives up on a name whose last component has a failure
\* record of its own
FindAndLoad_BadNameBlocks ==
    /\ Running("_gcd_import", "start")
    /\ LET f == Top
           parent == Front(f.name)
       IN  IF f.name \in DOMAIN modules
               THEN /\ stack' = Return /\ ret' = Returned(f.name)
                    /\ in_cycle' = IF Initializing(f.name)
                                       THEN in_cycle \cup {f.name} \cup Importer
                                       ELSE in_cycle
           ELSE IF <<Last(f.name)>> \in DOMAIN bad_modules
               THEN /\ stack' = Return /\ ret' = Raise("ModuleNotFoundError", f.name)
                    /\ UNCHANGED in_cycle
           ELSE IF parent # << >> /\ parent \notin DOMAIN modules
               THEN /\ CanCall
                    /\ stack' = Call(Frame("_gcd_import", "start", parent),
                                     [f EXCEPT !.pc = "parent"])
                    /\ ret' = NoValue
                    /\ UNCHANGED in_cycle
           ELSE /\ stack' = Goto([f EXCEPT !.pc = "find"]) /\ ret' = NoValue
                /\ UNCHANGED in_cycle
    /\ UNCHANGED <<modules, bad_modules, key_order, analyzed, looked_up>>
    /\ UNCHANGED <<unchanged_session, processed>>

\* _find_and_load_unlocked that puts the module of a found unit into
\* sys.modules first and imports its parent after that
FindAndLoad_ChildBeforeParent ==
    /\ Running("_gcd_import", "start")
    /\ LET f == Top
           parent == Front(f.name)
           spec == IF f.name \in DOMAIN Units(tree) THEN Units(tree)[f.name]
                   ELSE Unit("none", NoCode)
       IN  IF f.name \in DOMAIN modules
               THEN /\ stack' = Return /\ ret' = Returned(f.name)
                    /\ in_cycle' = IF Initializing(f.name)
                                       THEN in_cycle \cup {f.name} \cup Importer
                                       ELSE in_cycle
                    /\ UNCHANGED modules
           ELSE IF parent # << >> /\ parent \notin DOMAIN modules
               THEN /\ CanCall
                    /\ modules' = IF spec.kind = "none" THEN modules
                                  ELSE (f.name :> NewModule(f.name, spec)) @@ modules
                    /\ stack' = Call(Frame("_gcd_import", "start", parent),
                                     [f EXCEPT !.pc = "parent"])
                    /\ ret' = NoValue
                    /\ UNCHANGED in_cycle
           ELSE /\ stack' = Goto([f EXCEPT !.pc = "find"]) /\ ret' = NoValue
                /\ UNCHANGED <<in_cycle, modules>>
    /\ UNCHANGED <<bad_modules, key_order, analyzed, looked_up>>
    /\ UNCHANGED <<unchanged_session, processed>>

\* _find_and_load that takes from sys.modules only the names whose load is
\* still going on, and finds and loads every other name anew
FindAndLoad_CacheOnlyInitializing ==
    /\ Running("_gcd_import", "start")
    /\ LET f == Top
           parent == Front(f.name)
       IN  IF f.name \in DOMAIN modules /\ Initializing(f.name)
               THEN /\ stack' = Return /\ ret' = Returned(f.name)
                    /\ in_cycle' = in_cycle \cup {f.name} \cup Importer
           ELSE IF parent # << >> /\ parent \notin DOMAIN modules
               THEN /\ CanCall
                    /\ stack' = Call(Frame("_gcd_import", "start", parent),
                                     [f EXCEPT !.pc = "parent"])
                    /\ ret' = NoValue
                    /\ UNCHANGED in_cycle
           ELSE /\ stack' = Goto([f EXCEPT !.pc = "find"]) /\ ret' = NoValue
                /\ UNCHANGED in_cycle
    /\ UNCHANGED <<modules, bad_modules, key_order, analyzed, looked_up>>
    /\ UNCHANGED <<unchanged_session, processed>>

\* _find_and_load: a name in sys.modules is returned as it is, also while it
\* is still initializing (the same thread re-enters its module lock).
\* _find_and_load_unlocked: if parent not in sys.modules: import_(parent)
FindAndLoad ==
    /\ Running("_gcd_import", "start")
    /\ LET f == Top
           parent == Front(f.name)
       IN  IF f.name \in DOMAIN modules
               THEN /\ stack' = Return /\ ret' = Returned(f.name)
                    /\ in_cycle' = IF Initializing(f.name)
                                       THEN in_cycle \cup {f.name} \cup Importer
                                       ELSE in_cycle
           ELSE IF parent # << >> /\ parent \notin DOMAIN modules
               THEN /\ CanCall
                    /\ stack' = Call(Frame("_gcd_import", "start", parent),
                                     [f EXCEPT !.pc = "parent"])
                    /\ ret' = NoValue
                    /\ UNCHANGED in_cycle
           ELSE /\ stack' = Goto([f EXCEPT !.pc = "find"]) /\ ret' = NoValue
                /\ UNCHANGED in_cycle
    /\ UNCHANGED <<modules, bad_modules, key_order, analyzed, looked_up>>
    /\ UNCHANGED <<unchanged_session, processed>>

\* the return of import_(parent)
ParentImported ==
    /\ Running("_gcd_import", "parent")
    /\ IF Raised(ret)
           THEN stack' = Return /\ ret' = ret
           ELSE stack' = Goto([Top EXCEPT !.pc = "find"]) /\ ret' = NoValue
    /\ UNCHANGED <<modules, bad_modules, key_order, analyzed, looked_up>>
    /\ UNCHANGED <<unchanged_session, in_cycle, processed>>

\* _MFFinder.find_spec -> finder.find_spec(fullname, path, target): the unit of
\* that qualified name, if the tree (or the builtins) has one.
find_spec(t, fullname) ==
    IF fullname \in DOMAIN Units(t) THEN Units(t)[fullname] ELSE Unit("none", NoCode)

\* _find_and_load_unlocked after the parent is imported: the name may have been
\* loaded meanwhile; a parent without __path__ is "not a package"; otherwise
\* _find_spec, and _load_unlocked: module_from_spec (via _MFLoader.create_module)
\* and sys.modules[spec.name] = module, before exec_module.
FindSpec ==
    /\ Running("_gcd_import", "find")
    /\ LET f == Top
           parent == Front(f.name)
           spec == find_spec(tree, f.name)
       IN  IF parent # << >> /\ f.name \in DOMAIN modules
               THEN /\ stack' = Return /\ ret' = Returned(f.name)
                    /\ UNCHANGED <<modules, looked_up>>
           ELSE IF parent # << >> /\ ~modules[parent].path
               THEN /\ stack' = Return /\ ret' = Raise("ModuleNotFoundError", f.name)
                    /\ UNCHANGED <<modules, looked_up>>
           ELSE /\ looked_up' = looked_up \cup {f.name}
                /\ IF spec.kind = "none"
                       THEN /\ stack' = Return
                            /\ ret' = Raise("ModuleNotFoundError", f.name)
                            /\ UNCHANGED modules
                       ELSE /\ modules' = (f.name :> NewModule(f.name, spec)) @@ modules
                            /\ stack' = Goto([f EXCEPT !.pc = "exec"])
                            /\ ret' = NoValue
    /\ UNCHANGED <<bad_modules, key_order, analyzed>>
    /\ UNCHANGED <<unchanged_session, in_cycle, processed>>

\* a load that keeps the module out of sys.modules for the time its code is
\* scanned
ExecModule_UnregisteredDuringScan ==
    /\ Running("_gcd_import", "exec")
    /\ LET f == Top
           unit == find_spec(tree, f.name)
       IN  CASE unit.kind = "builtin" ->
                    /\ modules' = [modules EXCEPT ![f.name].code = "None"]
                    /\ stack' = Goto([f EXCEPT !.pc = "loaded"])
                    /\ ret' = NoValue
                    /\ UNCHANGED analyzed
             [] unit.kind = "broken" ->
                    /\ modules' = Remove(modules, f.name)
                    /\ stack' = Return
                    /\ ret' = Raise("SyntaxError", f.name)
                    /\ UNCHANGED analyzed
             [] OTHER ->
                    /\ CanCall
                    /\ modules' = Remove(modules, f.name)
                    /\ analyzed' = IF f.name \in DOMAIN analyzed
                                       THEN [analyzed EXCEPT ![f.name] = @ + 1]
                                       ELSE (f.name :> 1) @@ analyzed
                    /\ stack' = Call(Frame("_scan_code", "stores", f.name),
                                     [f EXCEPT !.pc = "loaded"])
                    /\ ret' = NoValue
    /\ UNCHANGED <<bad_modules, key_order, looked_up>>
    /\ UNCHANGED <<unchanged_session, in_cycle, processed>>

\* _MFLoader.exec_module: the mf attributes get their defaults, then
\* loader.get_code(name): None for a builtin, SyntaxError for a source file that
\* does not compile (then _load_unlocked removes the module from sys.modules and
\* re-raises), else module.__code__ = code and _scan_code(mf, module, code).
ExecModule ==
    /\ Running("_gcd_import", "exec")
    /\ LET f == Top
           unit == find_spec(tree, f.name)
       IN  CASE unit.kind = "builtin" ->
                    /\ modules' = [modules EXCEPT ![f.name].code = "None"]
                    /\ stack' = Goto([f EXCEPT !.pc = "loaded"])
                    /\ ret' = NoValue
                    /\ UNCHANGED analyzed
             [] unit.kind = "broken" ->
                    /\ modules' = Remove(modules, f.name)
                    /\ stack' = Return
                    /\ ret' = Raise("SyntaxError", f.name)
                    /\ UNCHANGED analyzed
             [] OTHER ->
                    /\ CanCall
                    /\ modules' = [modules EXCEPT ![f.name].code = "code"]
                    /\ analyzed' = IF f.name \in DOMAIN analyzed
                                       THEN [analyzed EXCEPT ![f.name] = @ + 1]
                                       ELSE (f.name :> 1) @@ analyzed
                    /\ stack' = Call(Frame("_scan_code", "stores", f.name),
                                     [f EXCEPT !.pc = "loaded"])
                    /\ ret' = NoValue
    /\ UNCHANGED <<bad_modules, key_order, looked_up>>
    /\ UNCHANGED <<unchanged_session, in_cycle, processed>>

\* _load_unlocked that takes the module out of sys.modules on every exit, not
\* only when exec_module raised
Loaded_AlwaysRemoves ==
    /\ Running("_gcd_import", "loaded")
    /\ modules' = Remove(modules, Top.name)
    /\ ret' = IF Raised(ret) THEN ret ELSE Returned(Top.name)
    /\ stack' = Return
    /\ UNCHANGED <<bad_modules, key_order, analyzed, looked_up>>
    /\ UNCHANGED <<unchanged_session, in_cycle, processed>>

\* the end of _load_unlocked and of _find_and_load_unlocked: an exception of
\* exec_module removes the module; otherwise setattr(parent_module, child, module).
Loaded ==
    /\ Running("_gcd_import", "loaded")
    /\ LET f == Top
           parent == Front(f.name)
       IN  IF Raised(ret)
               THEN /\ modules' = Remove(modules, f.name)
                    /\ ret' = ret
               ELSE /\ modules' = IF parent # << >>
                                      THEN [modules EXCEPT ![parent].attrs = @ \cup {Last(f.name)}]
                                      ELSE modules
                    /\ ret' = Returned(f.name)
    /\ stack' = Return
    /\ UNCHANGED <<bad_modules, key_order, analyzed, looked_up>>
    /\ UNCHANGED <<unchanged_session, in_cycle, processed>>

-----------------------------------------------------------------------------
(* _scan_code(mf, module, code) *)

CodeOf(t, name) == Units(t)[name].code

\* case ("store", (name,)): module.__mf_global_names__.add(name), for every
\* stored name of the code object (they are all yielded before its imports)
ScanStores ==
    /\ Running("_scan_code", "stores")
    /\ LET f == Top
           block == CodeOf(tree, f.name)[f.blk]
       IN  /\ modules' = [modules EXCEPT ![f.name].gnames = @ \cup block.stores]
           /\ stack' = Goto([f EXCEPT !.pc = "import", !.i = 1])
    /\ UNCHANGED <<bad_modules, key_order, ret, analyzed, looked_up>>
    /\ UNCHANGED <<unchanged_session, in_cycle, processed>>

\* have_star = "*" in fromlist; fromlist = [f for f in fromlist if f != "*"]
have_star(d) == "*" \in SeqToSet(d.fromlist)
StripStar(fromlist) == SelectSeq(fromlist, LAMBDA x : x # "*")

\* if have_star, without line 133: the unresolved star imports of the cached
\* module are not passed on
StarImport_TaintNotInherited(mods, importer, name) ==
    IF name \in DOMAIN mods
        THEN [mods EXCEPT
                 ![importer].gnames = @ \cup mods[name].gnames,
                 ![importer].stars = @ \cup (IF mods[name].code = "code" THEN {} ELSE {name})]
        ELSE [mods EXCEPT ![importer].stars = @ \cup {name}]

\* if have_star, without the else branch: a name that is not in sys.modules
\* leaves no trace
StarImport_AbsentIgnored(mods, importer, name) ==
    IF name \in DOMAIN mods
        THEN [mods EXCEPT
                 ![importer].gnames = @ \cup mods[name].gnames,
                 ![importer].stars = @ \cup mods[name].stars
                                       \cup (IF mods[name].code = "code" THEN {} ELSE {name})]
        ELSE mods

\* if have_star, without the look into sys.modules: every star import is
\* recorded as unresolved
StarImport_NeverResolved(mods, importer, name) ==
    [mods EXCEPT ![importer].stars = @ \cup {name}]

\* if have_star: the names and the unresolved star imports of the cached module
\* are merged into the importer; a module without code, or a name that is not
\* in sys.modules, is added to the importer's unresolved star imports.
StarImport(mods, importer, name) ==
    IF name \in DOMAIN mods
        THEN [mods EXCEPT
                 ![importer].gnames = @ \cup mods[name].gnames,
                 ![importer].stars = @ \cup mods[name].stars
                                       \cup (IF mods[name].code = "code" THEN {} ELSE {name})]
        ELSE [mods EXCEPT ![importer].stars = @ \cup {name}]

\* the directive at which the scan of frame f stands, and what its try statement
\* caught, if anything
Processed(f, result) ==
    [module |-> f.name, blk |-> f.blk, i |-> f.i, raised |-> Raised(result),
     exc |-> IF Raised(result) THEN result ELSE NoValue]

\* dict.setdefault(key, set()) for each of the keys in turn: a new key goes to
\* the end of the dict
RECURSIVE Inserted(_, _)
Inserted(order, keys) ==
    IF keys = << >> THEN order
    ELSE Inserted(IF Head(keys) \in SeqToSet(order) THEN order ELSE Append(order, Head(keys)),
                  Tail(keys))

\* the keys that lines 118 to 124 write, in the order they write them: the name
\* (except clause), or name.from_item for each from_item in turn (else clause)
RecordedKeys(bad, name, fromlist, result) ==
    SelectSeq(IF Raised(result) THEN <<name>>
              ELSE [i \in 1..Len(fromlist) |-> Append(name, fromlist[i])],
              LAMBDA k : k \in DOMAIN bad)

\* _scan_code importing through the public operation of the session,
\* mf.import_as_module(name, module, fromlist, level), which enters
\* `with self._patch_sys():` again
ScanImport_ThroughPublicOperation ==
    /\ Running("_scan_code", "import")
    /\ LET f == Top
           code == CodeOf(tree, f.name)
           block == code[f.blk]
       IN  IF f.i > Len(block.imports)
               THEN /\ IF f.blk < Len(code)
                           THEN stack' = Goto([f EXCEPT !.pc = "stores", !.blk = @ + 1])
                           ELSE stack' = Return
                    /\ UNCHANGED threads
               ELSE /\ stack' = Goto([f EXCEPT !.pc = "imported"])
                    /\ threads' = [t \in Threads |->
                                      IF lock = t THEN [threads[t] EXCEPT !.pc = "acquire"]
                                      ELSE threads[t]]
    /\ ret' = NoValue
    /\ UNCHANGED <<tree, excludes, modules, bad_modules, key_order, calls, outcome, report,
                   analyzed, looked_up, in_cycle, history, processed, sys, lock, dicts,
                   location>>

\* a level-0 import that looks for the name in the importer's package first
\* (the implicit relative import of the legacy find_head_package)
ScanImport_ImplicitRelative ==
    /\ Running("_scan_code", "import")
    /\ LET f == Top
           code == CodeOf(tree, f.name)
           block == code[f.blk]
           d == block.imports[f.i]
           package == modules[f.name].package
           sibling == package \o d.name
           name == IF d.level > 0 THEN resolve_name(d.name, package, d.level)
                   ELSE IF package # << >> /\ sibling \in DOMAIN Units(tree) THEN sibling
                   ELSE d.name
       IN  IF f.i > Len(block.imports)
               THEN /\ IF f.blk < Len(code)
                           THEN stack' = Goto([f EXCEPT !.pc = "stores", !.blk = @ + 1])
                           ELSE stack' = Return
                    /\ ret' = NoValue
                    /\ UNCHANGED <<modules, bad_modules, key_order, processed>>
           ELSE IF d.level > 0 /\ ResolveFails(package, d.level)
               THEN /\ bad_modules' = AddTo(bad_modules, d.name, f.name)
                    /\ key_order' = Inserted(key_order, <<d.name>>)
                    /\ modules' = IF have_star(d) THEN StarImport(modules, f.name, d.name)
                                  ELSE modules
                    /\ stack' = Goto([f EXCEPT !.i = @ + 1])
                    /\ ret' = NoValue
                    /\ processed' = processed \cup {Processed(f, Raise("ImportError", << >>))}
           ELSE /\ CanCall
                /\ stack' = Call([Frame("__import__", "gcd", name) EXCEPT
                                      !.fromlist = StripStar(d.fromlist)],
                                 [f EXCEPT !.pc = "imported", !.target = name])
                /\ ret' = NoValue
                /\ UNCHANGED <<modules, bad_modules, key_order, processed>>
    /\ UNCHANGED <<analyzed, looked_up>>
    /\ UNCHANGED <<unchanged_session, in_cycle>>

\* case ("import", (name, fromlist, level)), up to the call of
\* importlib.__import__; after the last import of a code object, the scan goes
\* on with the next nested code object, and returns after the last one.
\* A relative name that resolve_name rejects is recorded under the name of the
\* directive as written: the ImportError is raised before `name` is rebound.
ScanImport ==
    /\ Running("_scan_code", "import")
    /\ LET f == Top
           code == CodeOf(tree, f.name)
           block == code[f.blk]
           d == block.imports[f.i]
           package == modules[f.name].package
           name == IF d.level > 0 THEN resolve_name(d.name, package, d.level) ELSE d.name
       IN  IF f.i > Len(block.imports)
               THEN /\ IF f.blk < Len(code)
                           THEN stack' = Goto([f EXCEPT !.pc = "stores", !.blk = @ + 1])
                           ELSE stack' = Return
                    /\ ret' = NoValue
                    /\ UNCHANGED <<modules, bad_modules, key_order, processed>>
           ELSE IF d.level > 0 /\ ResolveFails(package, d.level)
               THEN /\ bad_modules' = AddTo(bad_modules, d.name, f.name)
                    /\ key_order' = Inserted(key_order, <<d.name>>)
                    /\ modules' = IF have_star(d) THEN StarImport(modules, f.name, d.name)
                                  ELSE modules
                    /\ stack' = Goto([f EXCEPT !.i = @ + 1])
                    /\ ret' = NoValue
                    /\ processed' = processed \cup {Processed(f, Raise("ImportError", << >>))}
           ELSE /\ CanCall
                /\ stack' = Call([Frame("__import__", "gcd", name) EXCEPT
                                      !.fromlist = StripStar(d.fromlist)],
                                 [f EXCEPT !.pc = "imported", !.target = name])
                /\ ret' = NoValue
                /\ UNCHANGED <<modules, bad_modules, key_order, processed>>
    /\ UNCHANGED <<analyzed, looked_up>>
    /\ UNCHANGED <<unchanged_session, in_cycle>>

\* except (ImportError, SyntaxError): the name is recorded as bad for the module.
\* else: for a result with __path__, every fromlist item that is not an attribute
\* of it is recorded as bad under f"{name}.{from_item}".
\* lines 120 to 124 without the test for __path__: the fromlist is checked
\* against whatever the import returned
RecordBad_NotOnlyPackages(bad, mods, importer, name, fromlist, result) ==
    IF Raised(result)
        THEN AddTo(bad, name, importer)
    ELSE LET absent == {x \in SeqToSet(fromlist) : x \notin mods[result.name].attrs}
             keys == {Append(name, x) : x \in absent}
         IN  [k \in DOMAIN bad \cup keys |->
                 (IF k \in DOMAIN bad THEN bad[k] ELSE {})
                 \cup (IF k \in keys THEN {importer} ELSE {})]

RecordBad(bad, mods, importer, name, fromlist, result) ==
    IF Raised(result)
        THEN AddTo(bad, name, importer)
    ELSE IF mods[result.name].path
        THEN LET absent == {x \in SeqToSet(fromlist) : x \notin mods[result.name].attrs}
                 keys == {Append(name, x) : x \in absent}
             IN  [k \in DOMAIN bad \cup keys |->
                     (IF k \in DOMAIN bad THEN bad[k] ELSE {})
                     \cup (IF k \in keys THEN {importer} ELSE {})]
    ELSE bad

\* the import case without its except clause: an exception of
\* importlib.__import__ leaves _scan_code
ScanImported_NoExcept ==
    /\ Running("_scan_code", "imported")
    /\ LET f == Top
           d == CodeOf(tree, f.name)[f.blk].imports[f.i]
       IN  IF Raised(ret)
               THEN /\ stack' = Return
                    /\ UNCHANGED <<bad_modules, key_order, modules, ret, processed>>
               ELSE /\ bad_modules' = RecordBad(bad_modules, modules, f.name, f.target,
                                                StripStar(d.fromlist), ret)
                    /\ key_order' = Inserted(key_order, RecordedKeys(bad_modules', f.target,
                                                StripStar(d.fromlist), ret))
                    /\ modules' = IF have_star(d) THEN StarImport(modules, f.name, f.target)
                                  ELSE modules
                    /\ stack' = Goto([f EXCEPT !.pc = "import", !.i = @ + 1])
                    /\ ret' = NoValue
                    /\ processed' = processed \cup {Processed(f, ret)}
    /\ UNCHANGED <<analyzed, looked_up>>
    /\ UNCHANGED <<unchanged_session, in_cycle>>

\* the rest of the import case, after importlib.__import__ returned or raised
ScanImported ==
    /\ Running("_scan_code", "imported")
    /\ LET f == Top
           d == CodeOf(tree, f.name)[f.blk].imports[f.i]
       IN  /\ bad_modules' = RecordBad(bad_modules, modules, f.name, f.target,
                                       StripStar(d.fromlist), ret)
           /\ key_order' = Inserted(key_order, RecordedKeys(bad_modules', f.target,
                                       StripStar(d.fromlist), ret))
           /\ modules' = IF have_star(d) THEN StarImport(modules, f.name, f.target)
                         ELSE modules
           /\ stack' = Goto([f EXCEPT !.pc = "import", !.i = @ + 1])
           /\ ret' = NoValue
           /\ processed' = processed \cup {Processed(f, ret)}
    /\ UNCHANGED <<analyzed, looked_up>>
    /\ UNCHANGED <<unchanged_session, in_cycle>>

-----------------------------------------------------------------------------
(* The classifier, called between public operations. *)

\* any_missing_maybe emptying bad_modules once it has built its lists
AnyMissingMaybe_ConsumesRecords ==
    /\ stack = << >>
    /\ report' = [valid |-> TRUE] @@ any_missing_maybe(modules, bad_modules, key_order, excludes)
    /\ bad_modules' = << >>
    /\ key_order' = << >>
    /\ UNCHANGED <<tree, excludes, modules, stack, ret, calls, outcome,
                   analyzed, looked_up, in_cycle, history, processed, host, location>>

AnyMissingMaybe ==
    /\ stack = << >>
    /\ report' = [valid |-> TRUE] @@ any_missing_maybe(modules, bad_modules, key_order, excludes)
    /\ UNCHANGED <<tree, excludes, modules, bad_modules, key_order, stack, ret, calls, outcome,
                   analyzed, looked_up, in_cycle, history, processed, host, location>>

-----------------------------------------------------------------------------

Step ==
    \/ ImportAsModuleEnd
    \/ ImportCall
    \/ ImportModule
    \/ ImportTop
    \/ HandleFromlist
    \/ HandleFromlistItem
    \/ FindAndLoad
    \/ ParentImported
    \/ FindSpec
    \/ ExecModule
    \/ Loaded
    \/ ScanStores
    \/ ScanImport
    \/ ScanImported

Next ==
    \/ \E name \in Entries : ImportAsModule(name)
    \/ Step
    \/ AnyMissingMaybe

Spec == Init /\ [][Next]_vars

-----------------------------------------------------------------------------
(* any_missing_maybe on its own: a session that is in between public       *)
(* operations, with any registry and any failure records over a few names. *)
(* Every importer of a failure record is a registered module, as           *)
(* _scan_code only records failures for the module it scans.               *)

ClassifyNames == {<<"z">>, <<"a", "z">>, <<"b", "z">>, <<"a", "foo">>}
ExcludedNames == {<<"z">>, <<"a", "z">>, <<"b", "z">>}

ScannedModule(name, path, gnames, stars) ==
    [path |-> path, package |-> IF path THEN name ELSE Front(name), code |-> "code",
     gnames |-> gnames, stars |-> stars, attrs |-> {}]

ClassifyRegistries ==
    LET m == <<"m">> :> ScannedModule(<<"m">>, FALSE, {}, {})
    IN  {m} \cup { (<<"a">> :> ScannedModule(<<"a">>, TRUE, gnames, stars)) @@ m :
                       gnames \in SUBSET {"z"}, stars \in SUBSET {<<"sys">>} }

ClassifyFailures(mods) ==
    UNION { [keys -> SUBSET (DOMAIN mods) \ {{}}] : keys \in SUBSET ClassifyNames }

\* the orders in which the keys can have been inserted
Orders(keys) ==
    {order \in [1..Cardinality(keys) -> keys] : SeqToSet(order) = keys}

InitClassify ==
    /\ tree = [a |-> 1, m |-> 1, s |-> 1, b |-> 1]
    /\ excludes \in SUBSET ExcludedNames
    /\ modules \in ClassifyRegistries
    /\ bad_modules \in ClassifyFailures(modules)
    /\ key_order \in Orders(DOMAIN bad_modules)
    /\ stack = << >>
    /\ ret = NoValue
    /\ calls = 0
    /\ outcome = NoValue
    /\ report = NoReport
    /\ analyzed = << >>
    /\ looked_up = {}
    /\ in_cycle = {}
    /\ history = << >>
    /\ processed = {}
    /\ sys = HostSys
    /\ lock = NoThread
    /\ threads = [t \in Threads |-> IdleThread]
    /\ dicts = HostDicts
    /\ NoRewriting

SpecClassify == InitClassify /\ [][AnyMissingMaybe]_vars

-----------------------------------------------------------------------------
(* _patch_sys on its own: threads that call the public operations, each on *)
(* a ModuleFinder of its own.  The thread switch can come between any two  *)
(* steps.  What the body of the with statement does to the session is the  *)
(* subject of Spec; here it is its effect on the host that counts: the     *)
(* modules it registers go into the dict sys.modules is bound to, and it   *)
(* returns or raises.                                                      *)

session == <<tree, excludes, modules, bad_modules, key_order, stack, ret, calls, outcome,
             report, analyzed, looked_up, in_cycle, history, processed, location>>

InitPatch ==
    /\ tree = [a |-> 1, m |-> 1, s |-> 1, b |-> 1]
    /\ excludes = {}
    /\ modules = << >>
    /\ bad_modules = << >>
    /\ key_order = << >>
    /\ stack = << >>
    /\ ret = NoValue
    /\ calls = 0
    /\ outcome = NoValue
    /\ report = NoReport
    /\ analyzed = << >>
    /\ looked_up = {}
    /\ in_cycle = {}
    /\ history = << >>
    /\ processed = {}
    /\ sys = HostSys
    /\ lock = NoThread
    /\ threads = [t \in Threads |-> IdleThread]
    /\ dicts = HostDicts
    /\ NoRewriting

\* thread t calls import_as_module, or import_as_file / run_as_script, of its
\* session: `with self._patch_sys():`
CallOperation(t, op) ==
    /\ threads[t].pc = "idle"
    /\ threads[t].ops < MaxOps
    /\ threads' = [threads EXCEPT ![t] =
                       [@ EXCEPT !.pc = "acquire", !.op = op, !.k = 0, !.old = << >>,
                                 !.raised = FALSE]]
    /\ UNCHANGED <<sys, lock, dicts, session>>

\* entering the with statement without waiting for the lock
Acquire_Unguarded(t) ==
    /\ threads[t].pc = "acquire"
    /\ lock' = t
    /\ threads' = [threads EXCEPT ![t] = [@ EXCEPT !.pc = "get", !.k = 1, !.before = sys]]
    /\ UNCHANGED <<sys, dicts, session>>

\* self.__sys_patch_lock.__enter__(): threading.Lock.acquire blocks while the
\* lock is held
Acquire(t) ==
    /\ threads[t].pc = "acquire"
    /\ lock = NoThread
    /\ lock' = t
    /\ threads' = [threads EXCEPT ![t] = [@ EXCEPT !.pc = "get", !.k = 1, !.before = sys]]
    /\ UNCHANGED <<sys, dicts, session>>

\* _patch_attr, up to the yield: old_value = getattr(obj, attr_name)
PatchGet(t) ==
    /\ threads[t].pc = "get"
    /\ threads' = [threads EXCEPT ![t] =
                       [@ EXCEPT !.pc = "set", !.old = Append(@, sys[PatchedAttrs[threads[t].k]])]]
    /\ UNCHANGED <<sys, lock, dicts, session>>

\* setattr(obj, attr_name, new_value); yield: the next with-item is entered, or
\* the body after the last one
PatchSet(t) ==
    /\ threads[t].pc = "set"
    /\ LET k == threads[t].k
       IN  /\ sys' = [sys EXCEPT ![PatchedAttrs[k]] = PatchValue(t, PatchedAttrs[k])]
           /\ threads' = [threads EXCEPT ![t] =
                              IF k < Len(PatchedAttrs)
                                  THEN [@ EXCEPT !.pc = "get", !.k = k + 1]
                                  ELSE [@ EXCEPT !.pc = "body"]]
    /\ UNCHANGED <<lock, dicts, session>>

\* The body of the with statement.  import_as_module: importlib.__import__
\* registers what it loads in the dict sys.modules is bound to, the scan of a
\* loaded unit may record failures in the bad_modules of the session whose
\* finders sys.meta_path is bound to, and it returns or raises.  _import_from_file: raises FileNotFoundError (line 281), or
\* AttributeError at line 286, which reads module.__code__ before exec_module
\* has set it; sys.modules[name] = module (line 287) is not reached.
Body(t) ==
    /\ threads[t].pc = "body"
    /\ \E loads, fails, raises \in BOOLEAN :
           /\ threads[t].op = "_import_from_file" => (~loads /\ raises)
           /\ fails => loads
           /\ dicts' = [d \in DOMAIN dicts |->
                            IF (loads /\ d = sys["modules"])
                               \/ (fails /\ d \in BadModulesOf(sys["meta_path"]))
                                THEN dicts[d] \cup {t}
                                ELSE dicts[d]]
           /\ threads' = [threads EXCEPT ![t] =
                              [@ EXCEPT !.pc = "restore", !.k = Len(PatchedAttrs),
                                        !.raised = raises]]
    /\ UNCHANGED <<sys, lock, session>>

\* _patch_attr as a context manager without try/finally: the old value is put
\* back only when the body returned
Restore_OnlyOnReturn(t) ==
    /\ threads[t].pc = "restore"
    /\ LET k == threads[t].k
       IN  /\ sys' = IF threads[t].raised THEN sys
                      ELSE [sys EXCEPT ![PatchedAttrs[k]] = threads[t].old[k]]
           /\ threads' = [threads EXCEPT ![t] =
                              IF k > 1 THEN [@ EXCEPT !.k = k - 1]
                                       ELSE [@ EXCEPT !.pc = "release"]]
    /\ UNCHANGED <<lock, dicts, session>>

\* _patch_attr, the finally clause: setattr(obj, attr_name, old_value), for the
\* with-items in reverse order, whether the body returned or raised
Restore(t) ==
    /\ threads[t].pc = "restore"
    /\ LET k == threads[t].k
       IN  /\ sys' = [sys EXCEPT ![PatchedAttrs[k]] = threads[t].old[k]]
           /\ threads' = [threads EXCEPT ![t] =
                              IF k > 1 THEN [@ EXCEPT !.k = k - 1]
                                       ELSE [@ EXCEPT !.pc = "release"]]
    /\ UNCHANGED <<lock, dicts, session>>

\* a with statement that gives the lock back only when the body returned
Release_OnlyOnReturn(t) ==
    /\ threads[t].pc = "release"
    /\ lock' = IF threads[t].raised THEN lock ELSE NoThread
    /\ threads' = [threads EXCEPT ![t] = [@ EXCEPT !.pc = "idle", !.ops = @ + 1]]
    /\ UNCHANGED <<sys, dicts, session>>

\* self.__sys_patch_lock.__exit__(); the operation returns or raises
Release(t) ==
    /\ threads[t].pc = "release"
    /\ lock' = NoThread
    /\ threads' = [threads EXCEPT ![t] = [@ EXCEPT !.pc = "idle", !.ops = @ + 1]]
    /\ UNCHANGED <<sys, dicts, session>>

NextPatch ==
    \E t \in Threads :
        \/ \E op \in Operations : CallOperation(t, op)
        \/ Acquire(t)
        \/ PatchGet(t)
        \/ PatchSet(t)
        \/ Body(t)
        \/ Restore(t)
        \/ Release(t)

SpecPatch == InitPatch /\ [][NextPatch]_vars

-----------------------------------------------------------------------------
(* Properties of any_missing_maybe (checked under SpecClassify). *)

InList(list, name) == name \in SeqToSet(list)
Failed == DOMAIN bad_modules \ excludes
Dotted(name) == Len(name) >= 2
Registered(name) == name \in DOMAIN modules

\* C4: every failed name that is not excluded and that has no dot, or whose
\* parent is not a key of modules, is in the missing list and not in the
\* maybe-missing list.
C4_NoRegisteredParentIsMissing ==
    report.valid =>
        \A n \in Failed :
            (~Dotted(n) \/ ~Registered(Front(n))) =>
                InList(report.missing, n) /\ ~InList(report.maybe, n)

C4_Witness ==
    /\ report.valid
    /\ \E n1, n2 \in Failed :
          /\ ~Dotted(n1) /\ InList(report.missing, n1)
          /\ Dotted(n2) /\ ~Registered(Front(n2)) /\ InList(report.missing, n2)

\* C5: a failed dotted name that is not excluded, whose parent p is registered
\* and is one of its recorded importers, is in the missing list, also when its
\* last component is bound in p or p has unresolved star imports.
C5_OwnImporterIsMissing ==
    report.valid =>
        \A n \in Failed :
            (Dotted(n) /\ Registered(Front(n)) /\ Front(n) \in bad_modules[n]) =>
                InList(report.missing, n) /\ ~InList(report.maybe, n)

C5_Witness ==
    /\ report.valid
    /\ \E n \in Failed :
          /\ Dotted(n) /\ Registered(Front(n)) /\ Front(n) \in bad_modules[n]
          /\ Last(n) \in modules[Front(n)].gnames
          /\ modules[Front(n)].stars # {}
          /\ InList(report.missing, n)

\* C6: a failed dotted name that is not excluded, whose parent p is registered
\* and is not among its importers, and whose last component is bound in p, is
\* in neither list.
C6_BoundNameIsNotListed ==
    report.valid =>
        \A n \in Failed :
            (/\ Dotted(n) /\ Registered(Front(n))
             /\ Front(n) \notin bad_modules[n]
             /\ Last(n) \in modules[Front(n)].gnames) =>
                ~InList(report.missing, n) /\ ~InList(report.maybe, n)

C6_Witness ==
    /\ report.valid
    /\ report.missing # << >>
    /\ \E n \in Failed :
          /\ Dotted(n) /\ Registered(Front(n))
          /\ Front(n) \notin bad_modules[n]
          /\ Last(n) \in modules[Front(n)].gnames
          /\ modules[Front(n)].stars # {}

\* C7: a name is in the maybe-missing list exactly if it is a failed name, not
\* excluded, dotted, its parent p is registered and not among its importers,
\* its last component is not bound in p, and p has unresolved star imports.
C7_MaybeExactly ==
    report.valid =>
        \A n \in ClassifyNames \cup DOMAIN bad_modules \cup SeqToSet(report.maybe) :
            InList(report.maybe, n) <=>
                /\ n \in DOMAIN bad_modules
                /\ n \notin excludes
                /\ Dotted(n)
                /\ Registered(Front(n))
                /\ Front(n) \notin bad_modules[n]
                /\ Last(n) \notin modules[Front(n)].gnames
                /\ modules[Front(n)].stars # {}

C7_Witness ==
    /\ report.valid
    /\ report.maybe # << >>
    /\ report.missing # << >>

\* C9: no excluded name is in the missing or the maybe-missing list.
C9_ExcludedIsNotListed ==
    report.valid =>
        \A n \in excludes : ~InList(report.missing, n) /\ ~InList(report.maybe, n)

C9_Witness ==
    /\ report.valid
    /\ \E n1, n2 \in excludes \cap DOMAIN bad_modules :
          /\ Classify(modules, bad_modules, n1) = "missing"
          /\ Classify(modules, bad_modules, n2) = "maybe"
    /\ report.missing # << >>

-----------------------------------------------------------------------------
(* Properties of the import engine (checked under Spec). *)

Idle == stack = << >>

\* C10: a name in excludes is never looked up by the finders and never becomes
\* a key of modules.
C10_ExcludedIsNeverResolved ==
    \A n \in excludes : n \notin looked_up /\ ~Registered(n)

\* C8, as claimed: when a registered module p has unresolved star imports, no
\* failed name whose parent is p is in the missing list.
C8_TaintedParentNeverMissing ==
    report.valid =>
        \A n \in DOMAIN bad_modules :
            (Dotted(n) /\ Registered(Front(n)) /\ modules[Front(n)].stars # {}) =>
                ~InList(report.missing, n)

\* C8, amended: when a registered module p has unresolved star imports, no
\* failed name whose parent is p and that p itself did not import is in the
\* missing list; such a name is in the maybe-missing list, or in neither list
\* when it is bound in p or excluded.
C8_TaintedParentMissingOnlyByOwnImport ==
    report.valid =>
        \A n \in DOMAIN bad_modules :
            (/\ Dotted(n) /\ Registered(Front(n))
             /\ modules[Front(n)].stars # {}
             /\ Front(n) \notin bad_modules[n]) =>
                /\ ~InList(report.missing, n)
                /\ \/ InList(report.maybe, n)
                   \/ Last(n) \in modules[Front(n)].gnames
                   \/ n \in excludes

C8_Witness ==
    /\ report.valid
    /\ \E n1, n2 \in DOMAIN bad_modules :
          /\ Front(n1) = Front(n2)
          /\ Dotted(n1) /\ Registered(Front(n1)) /\ modules[Front(n1)].stars # {}
          /\ Front(n1) \notin bad_modules[n1] /\ InList(report.maybe, n1)
          /\ Front(n2) \in bad_modules[n2] /\ InList(report.missing, n2)

\* the state of the session that C3 speaks of
SessionState == [modules |-> modules, bad_modules |-> bad_modules, analyzed |-> analyzed]
Snapshot(h) == [modules |-> h.modules, bad_modules |-> h.bad_modules, analyzed |-> h.analyzed]

\* C3: a second import_as_module(e), called after a first import_as_module(e)
\* returned, changes neither modules (keys, bound names, unresolved star
\* imports) nor bad_modules (keys, importers) and analyzes no unit again: not
\* while it runs and not when it has ended.
C3_SecondCallChangesNothing ==
    /\ \A k \in 2..Len(history) :
           (history[k].name = history[k - 1].name /\ ~history[k - 1].raised) =>
               /\ Snapshot(history[k]) = Snapshot(history[k - 1])
               /\ ~history[k].raised
    /\ (/\ ~Idle /\ history # << >>
        /\ stack[Len(stack)].name = history[Len(history)].name
        /\ ~history[Len(history)].raised) =>
            SessionState = Snapshot(history[Len(history)])

C3_Witness ==
    /\ Idle
    /\ Len(history) = 2
    /\ history[2].name = history[1].name
    /\ ~history[1].raised
    /\ Cardinality(DOMAIN modules) >= 5
    /\ DOMAIN bad_modules # {}
    /\ in_cycle # {}
    /\ \E n \in DOMAIN modules : modules[n].stars # {}

-----------------------------------------------------------------------------
(* Termination.  The interpreter keeps running the operation it is in: a   *)
(* step of the running operation that can be taken is taken.               *)

FairSpec == Spec /\ WF_vars(Step)

\* every unit that was imported again while its own load was in progress, and
\* every unit that imported it then, is registered and was analyzed exactly once
CyclesComplete ==
    Idle =>
        \A n \in in_cycle :
            /\ Registered(n)
            /\ modules[n].code = "code"
            /\ n \in DOMAIN analyzed /\ analyzed[n] = 1

\* C2: import_as_module terminates, also when units import each other or
\* themselves, and when it has ended the members of every import cycle are
\* keys of modules with their analysis complete.
C2_CyclicImportsTerminate ==
    /\ [](~Idle => <>Idle)
    /\ []CyclesComplete

C2_Witness ==
    /\ Idle
    /\ outcome.kind = "returned"
    /\ {<<"a", "m">>, <<"a", "s">>, <<"b", "c">>} \subseteq in_cycle
    /\ \A n \in in_cycle : analyzed[n] = 1

-----------------------------------------------------------------------------
(* The dependency closure of an entry, read off the file tree alone. *)

\* a unit that can be found and analyzed: all its parents are packages that
\* can be, and its own source compiles
RECURSIVE Loadable(_, _)
Loadable(t, n) ==
    /\ n \in DOMAIN Units(t)
    /\ Units(t)[n].kind # "broken"
    /\ Len(n) > 1 => Loadable(t, Front(n)) /\ Units(t)[Front(n)].kind = "package"

Prefixes(n) == {SubSeq(n, 1, k) : k \in 1..Len(n)}

DirectivesOf(t, m) ==
    LET code == Units(t)[m].code
    IN  UNION { SeqToSet(code[b].imports) : b \in 1..Len(code) }

\* the modules a directive of unit m resolves to and that are found without an
\* analysis failure: the target and the packages on the way to it and, for a
\* package target, the fromlist items that name a submodule
ResolvedBy(t, m, d) ==
    LET package == IF Units(t)[m].kind = "package" THEN m ELSE Front(m)
        fails == d.level > 0 /\ ResolveFails(package, d.level)
        target == IF d.level > 0 THEN resolve_name(d.name, package, d.level) ELSE d.name
        items == IF Loadable(t, target) /\ Units(t)[target].kind = "package"
                     THEN {Append(target, x) : x \in SeqToSet(d.fromlist) \ {"*"}}
                     ELSE {}
    IN  IF fails THEN {}
        ELSE {n \in Prefixes(target) \cup items : Loadable(t, n)}

Analyzable(t, n) == n \in DOMAIN Units(t) /\ Units(t)[n].kind \in {"module", "package"}

\* one round: the parents of the members, and what the directives of the
\* analyzed members resolve to
Grow(t, S) ==
    S \cup {Front(n) : n \in {x \in S : Len(x) > 1}}
      \cup UNION { UNION { ResolvedBy(t, m, d) : d \in DirectivesOf(t, m) } :
                   m \in {x \in S : Analyzable(t, x)} }

RECURSIVE LeastClosed(_, _)
LeastClosed(t, S) == IF Grow(t, S) = S THEN S ELSE LeastClosed(t, Grow(t, S))

\* C1: after import_as_module(e) returned on a fresh session, the keys of
\* modules are exactly the least set that contains e, the parent package of
\* every member and every module that a directive of an analyzed member
\* resolves to and that is found without an analysis failure.
C1_ModulesAreTheClosure ==
    (Idle /\ Len(history) = 1 /\ ~history[1].raised) =>
        DOMAIN modules = LeastClosed(tree, {history[1].name})

-----------------------------------------------------------------------------
(* Failures of single directives. *)

\* the positions of the import directives in the code of unit m
DirectivePositions(t, m) ==
    UNION { {<<b, i>> : i \in 1..Len(CodeOf(t, m)[b].imports)} : b \in 1..Len(CodeOf(t, m)) }

\* directive i of block blk of unit m was processed and ended with exception
\* kind (or with none)
Done(m, blk, i, kind) ==
    \E p \in processed : p.module = m /\ p.blk = blk /\ p.i = i /\ p.exc.kind = kind

\* the scan of m has returned
Scanned(m) == Registered(m) /\ modules[m].code = "code" /\ ~Initializing(m)

\* C11: a directive whose resolution fails (not found, analysis failure,
\* relative import beyond the top level) leaves a failure record that names
\* the importing unit, no error leaves the scan of the unit, and every
\* directive of the unit and of its nested code objects is processed.
C11_FailedDirectiveIsRecordedAndScanGoesOn ==
    /\ Running("_gcd_import", "loaded") => ~Raised(ret)
    /\ \A p \in processed :
           p.raised => \E key \in DOMAIN bad_modules : p.module \in bad_modules[key]
    /\ \A m \in DOMAIN modules :
           Scanned(m) =>
               \A pos \in DirectivePositions(tree, m) :
                   \E p \in processed : p.module = m /\ p.blk = pos[1] /\ p.i = pos[2]

C11_Witness ==
    /\ Idle
    /\ outcome.kind = "returned"
    /\ Done(<<"a", "m">>, 1, 2, "SyntaxError")
    /\ Done(<<"a", "m">>, 2, 1, "none")
    /\ Done(<<"a", "p", "q">>, 1, 2, "ImportError")
    /\ Done(<<"a">>, 1, 1, "ModuleNotFoundError")
    /\ Scanned(<<"a", "p", "q">>)

\* C12: no ModuleNotFoundError, ImportError or SyntaxError raised while an
\* import is resolved reaches the caller of import_as_module, also when the
\* failing name is the entry module or one of its parents.
C12_NoFailureReachesTheCaller == ~Raised(outcome)

\* C13: when resolving a directive found a unit n whose source is malformed,
\* n is not a key of modules, bad_modules has an entry under n's own name that
\* contains the importer, the parent packages of n are keys of modules, and a
\* report lists n as the classifier's rules for a failed name say.
C13_MalformedUnitIsRecordedUnderItsName ==
    \A p \in processed :
        p.exc.kind = "SyntaxError" =>
            LET n == p.exc.name
            IN  /\ ~Registered(n)
                /\ \A k \in 1..(Len(n) - 1) : Registered(SubSeq(n, 1, k))
                /\ n \in DOMAIN bad_modules
                /\ p.module \in bad_modules[n]
                /\ (report.valid /\ n \notin excludes) =>
                       /\ InList(report.missing, n) <=> Classify(modules, bad_modules, n) = "missing"
                       /\ InList(report.maybe, n) <=> Classify(modules, bad_modules, n) = "maybe"

-----------------------------------------------------------------------------
(* Properties of _patch_sys (checked under SpecPatch). *)

\* thread t is between the acquisition and the release of the lock: the region
\* in which the sys attributes are overridden
InRegion(t) == threads[t].pc \in {"get", "set", "body", "restore", "release"}

\* C14: no two threads (sessions) are at the same time inside the region in
\* which sys.modules, sys.path and sys.meta_path are overridden, and the
\* thread inside it holds the class-level lock.
C14_MutualExclusion ==
    /\ \A t1, t2 \in Threads : (InRegion(t1) /\ InRegion(t2)) => t1 = t2
    /\ \A t \in Threads : InRegion(t) => lock = t

C14_Witness ==
    \E t1, t2 \in Threads :
        /\ threads[t1].pc = "body"
        /\ sys["modules"] = <<"self", t1>>
        /\ threads[t2].pc = "acquire"
        /\ threads[t2].ops >= 1

\* C15: when a public operation has left its with statement, by return or by
\* exception, the five sys attributes are bound to what they were bound to
\* when it entered it; when no operation is inside, they are the host's; the
\* host's module cache never holds a module registered by a session.
C15_SysIsRestored ==
    /\ \A t \in Threads : threads[t].pc = "release" => sys = threads[t].before
    /\ (\A t \in Threads : ~InRegion(t)) => sys = HostSys
    /\ dicts[<<"host">>] = {NoThread}

C15_Witness ==
    \E t1, t2 \in Threads :
        /\ threads[t1].pc = "idle" /\ threads[t1].ops >= 1
        /\ threads[t1].raised /\ threads[t1].op = "_import_from_file"
        /\ threads[t2].pc = "release"
        /\ threads[t2].raised /\ threads[t2].op = "import_as_module"
        /\ dicts[<<"self", t2>>] # {}
        /\ sys = HostSys

-----------------------------------------------------------------------------
(* Records in progress. *)

\* the frames of _find_and_load for name n, innermost first
LoadsOf(n) == {k \in 1..Len(stack) : stack[k].fn = "_gcd_import" /\ stack[k].name = n}

\* C16: while the directives of a unit are processed, the unit's record is in
\* modules under its qualified name; an import of a name whose load has
\* registered its record and has not ended yet gets that record at once (it
\* goes no further than the lookup in modules), and no unit is analyzed twice.
C16_RecordIsRegisteredBeforeItsAnalysis ==
    /\ \A k \in 1..Len(stack) :
           stack[k].fn = "_scan_code" =>
               Registered(stack[k].name) /\ modules[stack[k].name].code = "code"
    /\ \A n \in DOMAIN modules : \A j, k \in LoadsOf(n) :
           (j < k /\ stack[k].pc \in {"exec", "loaded"}) => stack[j].pc = "start"
    /\ \A n \in DOMAIN analyzed : analyzed[n] = 1

C16_Witness ==
    /\ ret = Returned(<<"a", "m">>)
    /\ Initializing(<<"a", "m">>)
    /\ Importer = {<<"a", "s">>}
    /\ <<"b", "c">> \in in_cycle

-----------------------------------------------------------------------------
(* The lifecycle of the entries of modules. *)

\* new is the record old, possibly with more names, star imports or
\* submodules bound, and with its code set if it was not
SameRecord(old, new) ==
    /\ new.path = old.path
    /\ new.package = old.package
    /\ old.gnames \subseteq new.gnames
    /\ old.stars \subseteq new.stars
    /\ old.attrs \subseteq new.attrs
    /\ old.code # "unset" => new.code = old.code

Kept(n) == n \in DOMAIN modules' /\ SameRecord(modules[n], modules'[n])

\* C17, as claimed: a key of modules stays a key, bound to the same record,
\* in every later state.
C17_EntriesAreNeverRemoved ==
    [][\A n \in DOMAIN modules : Kept(n)]_vars

\* C17, amended: a key of modules stays a key, bound to the same record, in
\* every later state, unless the code of its unit cannot be obtained: then the
\* entry, created when the unit was found, is removed by the very next step of
\* its load, as the SyntaxError is raised.  So every entry that is present when
\* no operation runs has its code set and is never removed.
C17_OnlyMalformedUnitsAreRemoved ==
    /\ [][\A n \in DOMAIN modules :
              \/ Kept(n)
              \/ /\ modules[n].code = "unset"
                 /\ find_spec(tree, n).kind = "broken"
                 /\ Running("_gcd_import", "exec") /\ Top.name = n
                 /\ ret' = Raise("SyntaxError", n)]_vars
    /\ [](Idle => \A n \in DOMAIN modules : modules[n].code # "unset")

C17_Witness ==
    /\ Idle
    /\ Len(history) = 2
    /\ <<"b", "k">> \in looked_up
    /\ ~Registered(<<"b", "k">>)
    /\ history[1].modules # << >>
    /\ DOMAIN history[1].modules \subseteq DOMAIN modules
    /\ DOMAIN history[1].modules # DOMAIN modules

-----------------------------------------------------------------------------
(* The names directives resolve to. *)

\* the scans that have handed a directive to importlib.__import__ and wait for
\* it, with the directive each waits for
Waiting == {k \in 1..Len(stack) : stack[k].fn = "_scan_code" /\ stack[k].pc = "imported"}
DirectiveOf(k) == CodeOf(tree, stack[k].name)[stack[k].blk].imports[stack[k].i]

\* unit M's qualified name without its last L - 1 components when M is a
\* package, without its last L components when M is a plain module
Anchor(M, L) ==
    SubSeq(M, 1, Len(M) - (IF Units(tree)[M].kind = "package" THEN L - 1 ELSE L))

\* C18: a directive with level L > 0 and raw target T issued by unit M is
\* resolved as the absolute name anchor.T (anchor alone for an empty T), with
\* anchor as defined above: that is the name importlib.__import__ is called
\* with and the name the scan goes on with.
C18_RelativeNameIsAnchorDotTarget ==
    \A k \in Waiting :
        DirectiveOf(k).level > 0 =>
            LET resolved == Anchor(stack[k].name, DirectiveOf(k).level) \o DirectiveOf(k).name
            IN  /\ Anchor(stack[k].name, DirectiveOf(k).level) # << >>
                /\ stack[k].target = resolved
                /\ k > 1 => stack[k - 1].fn = "__import__" /\ stack[k - 1].name = resolved

C18_Witness ==
    \E j, k \in Waiting :
        /\ stack[j].name = <<"a", "p", "q">> /\ DirectiveOf(j).level = 2
        /\ stack[j].target = <<"a">>
        /\ stack[k].name = <<"a", "p">> /\ DirectiveOf(k).level = 2
        /\ stack[k].target = <<"a">>
        /\ Done(<<"a">>, 1, 2, "none")

\* the calls of _find_and_load made for the directive that scan k waits for:
\* the frames above it, up to the next scan
CallsFor(k) ==
    {j \in 1..(k - 1) :
        /\ stack[j].fn = "_gcd_import"
        /\ \A i \in j..(k - 1) : stack[i].fn # "_scan_code"}

\* C19: a level-0 directive for name N issued by a unit inside a package P is
\* resolved as N itself: importlib.__import__ is called with N, the only names
\* it looks for are N, the parents of N and N's fromlist items, so never P.N,
\* and when N is not found the failure is recorded under N.
C19_AbsoluteNameIsNotSearchedInThePackage ==
    /\ \A k \in Waiting :
           DirectiveOf(k).level = 0 =>
               LET N == DirectiveOf(k).name
               IN  /\ stack[k].target = N
                   /\ k > 1 => stack[k - 1].fn = "__import__" /\ stack[k - 1].name = N
                   /\ \A j \in CallsFor(k) :
                          \/ stack[j].name \in Prefixes(N)
                          \/ Front(stack[j].name) = N
    /\ \A p \in processed :
           LET d == CodeOf(tree, p.module)[p.blk].imports[p.i]
           IN  (d.level = 0 /\ p.exc = Raise("ModuleNotFoundError", d.name)) =>
                   d.name \in DOMAIN bad_modules /\ p.module \in bad_modules[d.name]

C19_Witness ==
    /\ Idle
    /\ report.valid
    /\ Done(<<"b">>, 1, 2, "ModuleNotFoundError")
    /\ <<"b">> \in bad_modules[<<"c">>]
    /\ InList(report.missing, <<"c">>)
    /\ <<"b", "c">> \in DOMAIN Units(tree)
    /\ <<"b", "c">> \notin looked_up
    /\ ~Registered(<<"b", "c">>)

\* fromlist item number idx of directive d is reached by _handle_fromlist: the
\* target is a package that loads, and no earlier item is a malformed unit
ItemReached(d, idx) ==
    /\ Loadable(tree, d.name)
    /\ Units(tree)[d.name].kind = "package"
    /\ \A i \in 1..(idx - 1) : find_spec(tree, Append(d.name, d.fromlist[i])).kind # "broken"

\* C20: a failure record for a name X does not keep a directive from
\* resolving a qualified name P.X with the same last component: once a level-0
\* directive `from P import ..., X, ...` that reaches X has been processed with
\* P.X findable, P.X is a key of modules also when X has a failure record; a
\* report then lists X as missing and P.X in neither list.
C20_FailedNameDoesNotShadowSubmodule ==
    \A p \in processed :
        LET d == CodeOf(tree, p.module)[p.blk].imports[p.i]
        IN  \A idx \in 1..Len(d.fromlist) :
                LET X == d.fromlist[idx]
                    PX == Append(d.name, X)
                IN  (/\ d.level = 0 /\ X # "*"
                     /\ <<X>> \in DOMAIN bad_modules
                     /\ ItemReached(d, idx)
                     /\ Loadable(tree, PX)) =>
                        /\ Registered(PX)
                        /\ report.valid =>
                               /\ <<X>> \notin excludes => InList(report.missing, <<X>>)
                               /\ ~InList(report.missing, PX)
                               /\ ~InList(report.maybe, PX)

C20_Witness ==
    /\ Idle
    /\ report.valid
    /\ tree.b = 1
    /\ Done(<<"a", "m">>, 1, 1, "ModuleNotFoundError")
    /\ <<"a", "m">> \in bad_modules[<<"c">>]
    /\ \E p \in processed : p.module = <<"a", "m">> /\ p.blk = 1 /\ p.i = 2
    /\ Registered(<<"b", "c">>)
    /\ analyzed[<<"b", "c">>] = 1
    /\ InList(report.missing, <<"c">>)
    /\ ~InList(report.missing, <<"b", "c">>)
    /\ ~InList(report.maybe, <<"b", "c">>)

-----------------------------------------------------------------------------
(* _MFLoader.exec_module on its own, as far as the file name of the code   *)
(* goes: the session's path_replacements and the file name the loader      *)
(* compiled the unit under are any of the values below.                    *)

RECURSIVE Strings(_)
Strings(n) ==
    IF n = 0 THEN {<< >>}
    ELSE Strings(n - 1) \cup {Append(str, c) : str \in Strings(n - 1), c \in Chars}

Filenames == Strings(MaxPath) \ {<< >>}

\* (old_path, new_path): a directory, a relative prefix that its replacement
\* starts with, a prefix that is not normalized, the empty prefix
Rules == {<<<<"/", "a">>, <<"b">>>>,
          <<<<"a">>, <<"a", "a">>>>,
          <<<<"a", "/", ".">>, <<"b">>>>,
          << << >>, <<"/", "b">>>>}

RECURSIVE RuleLists(_)
RuleLists(n) ==
    IF n = 0 THEN {<< >>}
    ELSE RuleLists(n - 1) \cup {Append(rules, r) : rules \in RuleLists(n - 1), r \in Rules}

InitPaths ==
    /\ tree = [a |-> 1, m |-> 1, s |-> 1, b |-> 1]
    /\ excludes = {}
    /\ modules = << >>
    /\ bad_modules = << >>
    /\ key_order = << >>
    /\ stack = << >>
    /\ ret = NoValue
    /\ calls = 0
    /\ outcome = NoValue
    /\ report = NoReport
    /\ analyzed = << >>
    /\ looked_up = {}
    /\ in_cycle = {}
    /\ history = << >>
    /\ processed = {}
    /\ sys = HostSys
    /\ lock = NoThread
    /\ threads = [t \in Threads |-> IdleThread]
    /\ dicts = HostDicts
    /\ path_replacements \in RuleLists(MaxRules)
    /\ source_code \in {CodeObject(filename) : filename \in Filenames}
    /\ module_code = NoCodeObject

\* exec_module, lines 188 to 196:
\* if mf.path_replacements:
\*     code = _replace_paths_in_code(code, mf.path_replacements)
\* module.__code__ = code
ExecModuleCode ==
    /\ module_code = NoCodeObject
    /\ module_code' = IF path_replacements # << >>
                          THEN replace_paths_in_code(source_code, path_replacements)
                          ELSE source_code
    /\ UNCHANGED <<path_replacements, source_code, host>>
    /\ UNCHANGED <<tree, excludes, modules, bad_modules, key_order, stack, ret, calls, outcome,
                   report, analyzed, looked_up, in_cycle, history, processed>>

SpecPaths == InitPaths /\ [][ExecModuleCode]_vars

\* the location a code object was compiled under, normalized, with the first
\* rule in list order whose old prefix is a prefix of it applied: that prefix
\* replaced by the rule's replacement, the rest kept
Rewritten(filename) ==
    LET normal == normpath(filename)
        matching == {k \in 1..Len(path_replacements) :
                        startswith(normal, path_replacements[k][1])}
    IN  IF matching = {} THEN normal
        ELSE LET k == CHOOSE i \in matching : \A j \in matching : i <= j
                 old == path_replacements[k][1]
             IN  path_replacements[k][2] \o SubSeq(normal, Len(old) + 1, Len(normal))

RewrittenEverywhere ==
    /\ module_code.co_filename = Rewritten(source_code.co_filename)
    /\ \A i \in 1..Len(module_code.co_consts) :
           IsCode(module_code.co_consts[i]) =>
               module_code.co_consts[i].co_filename
                   = Rewritten(source_code.co_consts[i].co_filename)

\* C23, as claimed: the file name recorded for an analyzed unit (and for its
\* nested code objects) is the normalized original file name with the first
\* matching rule applied once, and the normalized original when none matches.
C23_FirstMatchingRuleRewritesTheNormalizedLocation ==
    module_code # NoCodeObject => RewrittenEverywhere

\* C23, amended: that holds when the session has at least one rule; for a
\* session without rules the recorded file name is the original one as it is,
\* not normalized.
C23_FirstMatchingRuleRewritesWhenThereAreRules ==
    module_code # NoCodeObject =>
        IF path_replacements # << >> THEN RewrittenEverywhere
                                     ELSE module_code = source_code

\* "/./a" under the rules ("/a", "b") and ("", "/b"): normalized it is "/a",
\* both rules match, the first gives "b"
C23_Witness ==
    /\ module_code # NoCodeObject
    /\ source_code.co_filename = <<"/", ".", "/", "a">>
    /\ path_replacements = << <<<<"/", "a">>, <<"b">>>>, << << >>, <<"/", "b">> >> >>
    /\ module_code.co_filename = <<"b">>
    /\ module_code.co_consts[2].co_filename = <<"b">>

-----------------------------------------------------------------------------
(* The scenarios of test_e2e: run_module_finder builds a session over the  *)
(* file tree, calls import_as_module(import_this) and any_missing_maybe.   *)

InitScenarios ==
    /\ tree \in [scenario : Scenarios]
    /\ excludes = {}
    /\ modules = << >>
    /\ bad_modules = << >>
    /\ key_order = << >>
    /\ stack = << >>
    /\ ret = NoValue
    /\ calls = 0
    /\ outcome = NoValue
    /\ report = NoReport
    /\ analyzed = << >>
    /\ looked_up = {}
    /\ in_cycle = {}
    /\ history = << >>
    /\ processed = {}
    /\ sys = HostSys
    /\ lock = NoThread
    /\ threads = [t \in Threads |-> IdleThread]
    /\ dicts = HostDicts
    /\ NoRewriting

NextScenarios ==
    \/ ImportAsModule(<<"a", "module">>)
    \/ Step
    \/ AnyMissingMaybe

SpecScenarios == InitScenarios /\ [][NextScenarios]_vars

\* C24: in the package scenario, once import_as_module("a.module") has ended,
\* it has returned, modules holds exactly a, a.b, a.c, a.module, mymodule and
\* sys, and any_missing_maybe gives missing = [blahblah, c] and maybe = [].
C24_PackageScenario ==
    (tree.scenario = "package" /\ Idle /\ calls >= 1) =>
        /\ outcome = [kind |-> "returned", name |-> <<"a", "module">>]
        /\ DOMAIN modules = {<<"a">>, <<"a", "b">>, <<"a", "c">>, <<"a", "module">>,
                             <<"mymodule">>, <<"sys">>}
        /\ report.valid =>
               /\ report.missing = << <<"blahblah">>, <<"c">> >>
               /\ report.maybe = << >>

C24_Witness ==
    /\ tree.scenario = "package"
    /\ Idle
    /\ calls = 1
    /\ report.valid
    /\ report.missing = << <<"blahblah">>, <<"c">> >>
    /\ <<"a", "c">> \in DOMAIN modules
    /\ <<"a", "module">> \in in_cycle

-----------------------------------------------------------------------------
(* Fromlist items. *)

\* the package of unit m, and the directives of unit m that name a target
\* (level 0, or relative and not beyond the top level), with the target
PackageOf(m) == IF Units(tree)[m].kind = "package" THEN m ELSE Front(m)
Resolvable(m, d) == d.level = 0 \/ ~ResolveFails(PackageOf(m), d.level)
TargetOf(m, d) ==
    IF d.level > 0 THEN resolve_name(d.name, PackageOf(m), d.level) ELSE d.name

\* the processed directives `from P import x1..xk` whose target P is a package
\* that loads and none of whose items is a malformed unit
FromPackage ==
    {p \in processed :
        LET d == CodeOf(tree, p.module)[p.blk].imports[p.i]
        IN  /\ Resolvable(p.module, d)
            /\ StripStar(d.fromlist) # << >>
            /\ Loadable(tree, TargetOf(p.module, d))
            /\ Units(tree)[TargetOf(p.module, d)].kind = "package"
            /\ \A x \in SeqToSet(StripStar(d.fromlist)) :
                   find_spec(tree, Append(TargetOf(p.module, d), x)).kind # "broken"}

\* such a directive does not raise; every item that is a submodule is
\* registered, every item that is not was looked for and has a failure record
\* under P.x naming the importer
ItemsAttempted(p) ==
    LET d == CodeOf(tree, p.module)[p.blk].imports[p.i]
        P == TargetOf(p.module, d)
    IN  /\ p.exc.kind = "none"
        /\ \A x \in SeqToSet(StripStar(d.fromlist)) :
               IF Append(P, x) \in DOMAIN Units(tree)
                   THEN Registered(Append(P, x))
                   ELSE /\ Append(P, x) \in looked_up
                        /\ Append(P, x) \in DOMAIN bad_modules
                        /\ p.module \in bad_modules[Append(P, x)]

\* the items of such a directive that are no submodule of P
PlainItems(p) ==
    LET d == CodeOf(tree, p.module)[p.blk].imports[p.i]
        P == TargetOf(p.module, d)
    IN  {Append(P, x) : x \in {y \in SeqToSet(StripStar(d.fromlist)) :
                                   Append(P, y) \notin DOMAIN Units(tree)}}

Listed(n) ==
    IF InList(report.missing, n) THEN "missing"
    ELSE IF InList(report.maybe, n) THEN "maybe"
    ELSE "neither"

-----------------------------------------------------------------------------
(* The file operations. *)

\* C22: when the body of import_as_file or run_as_script (_import_from_file)
\* has ended, the operation has not raised and has registered its unit in the
\* session's modules.
C22_FileOperationReturnsWithItsUnitRegistered ==
    \A t \in Threads :
        (threads[t].op = "_import_from_file" /\ threads[t].pc \in {"restore", "release"})
            => /\ ~threads[t].raised
               /\ t \in dicts[PatchValue(t, "modules")]

-----------------------------------------------------------------------------
(* The order of the lists. *)

Ascending(list) == \A i, j \in 1..Len(list) : i < j => NameLess(list[i], list[j])

\* C25: both lists of any_missing_maybe are in ascending order, and they are
\* the same lists whatever the order in which the failures were recorded.
C25_ListsAreAscendingWhateverTheRecordingOrder ==
    report.valid =>
        /\ Ascending(report.missing)
        /\ Ascending(report.maybe)
        /\ \A order \in Orders(DOMAIN bad_modules) :
               any_missing_maybe(modules, bad_modules, order, excludes)
                   = [missing |-> report.missing, maybe |-> report.maybe]

\* z was recorded first and is listed last
C25_Witness ==
    /\ report.valid
    /\ key_order = << <<"z">>, <<"b", "z">>, <<"a", "z">>, <<"a", "foo">> >>
    /\ report.missing = << <<"b", "z">>, <<"z">> >>
    /\ report.maybe = << <<"a", "foo">>, <<"a", "z">> >>

\* C26: a call of any_missing_maybe (the one step that starts and ends with no
\* operation running) changes neither modules nor bad_modules nor excludes nor
\* what has been analyzed or looked up; and when the lists of an earlier call
\* are still those of the session (no import since), it returns the same lists.
C26_AnyMissingMaybeIsPure ==
    [][(stack = << >> /\ stack' = << >>) =>
           /\ modules' = modules
           /\ bad_modules' = bad_modules
           /\ key_order' = key_order
           /\ excludes' = excludes
           /\ analyzed' = analyzed
           /\ looked_up' = looked_up
           /\ report'.valid
           /\ report.valid => report' = report]_vars

C26_Witness ==
    /\ stack = << >>
    /\ calls = 2
    /\ report.valid
    /\ Len(report.missing) >= 2
    /\ report.maybe # << >>
    /\ Cardinality(DOMAIN bad_modules) > Len(report.missing) + Len(report.maybe)

-----------------------------------------------------------------------------
(* The cache. *)

\* C27: no name is analyzed more than once; and when the import machinery is
\* asked for a name that is a key of modules, its next step returns that
\* record: nothing is looked up, nothing is analyzed, modules stays as it is.
C27_CachedRecordIsUsed ==
    /\ [](\A n \in DOMAIN analyzed : analyzed[n] = 1)
    /\ [][(stack # << >> /\ Top.fn = "_gcd_import" /\ Top.pc \in {"start", "find"}
              /\ Top.name \in DOMAIN modules) =>
               /\ stack' = Tail(stack)
               /\ ret' = Returned(Top.name)
               /\ modules' = modules
               /\ analyzed' = analyzed
               /\ looked_up' = looked_up]_vars

\* a directive of a.m has asked for a, which was loaded and analyzed before as
\* the parent of a.m, and has got it
C27_Witness ==
    /\ stack # << >>
    /\ Top.fn = "__import__"
    /\ ret = Returned(<<"a">>)
    /\ Importer = {<<"a", "m">>}
    /\ modules[<<"a">>].code = "code"
    /\ ~Initializing(<<"a">>)
    /\ analyzed[<<"a">>] = 1

-----------------------------------------------------------------------------
(* Parents. *)

\* C28: every key of modules that has a dot has its immediate parent as a key,
\* that parent is a package, and at the step in which a dotted key enters
\* modules its parent is a key already.
C28_ParentIsRegisteredFirst ==
    /\ [](\A n \in DOMAIN modules :
             Len(n) > 1 => (Front(n) \in DOMAIN modules /\ modules[Front(n)].path))
    /\ [][\A n \in DOMAIN modules' \ DOMAIN modules :
               Len(n) > 1 => Front(n) \in DOMAIN modules]_vars

\* a.p.q is registered under the packages a.p and a; b.c.sys, asked for under
\* the plain module b.c, is not
C28_Witness ==
    /\ Registered(<<"a", "p", "q">>)
    /\ modules[<<"a", "p">>].path
    /\ modules[<<"a">>].path
    /\ Registered(<<"b", "c">>)
    /\ ~modules[<<"b", "c">>].path
    /\ <<"b", "c", "sys">> \in DOMAIN bad_modules
    /\ ~Registered(<<"b", "c", "sys">>)

-----------------------------------------------------------------------------
(* Star imports. *)

\* the scan of a unit is about to finish a directive with a star
AtStar == Running("_scan_code", "imported") /\ have_star(CodeOf(tree, Top.name)[Top.blk].imports[Top.i])

\* C29: when the scan of M finishes a star import whose target T is a key of
\* modules with code, then in the next state M's bound names include all the
\* names T had bound, and T is among M's unresolved star imports only if it
\* was before.
C29_ResolvedStarImportMergesNames ==
    [][(AtStar /\ Top.target \in DOMAIN modules /\ modules[Top.target].code = "code") =>
           /\ modules[Top.target].gnames \subseteq modules'[Top.name].gnames
           /\ Top.target \in modules'[Top.name].stars => Top.target \in modules[Top.name].stars]_vars

\* a.s has done `from a.m import *`, a.m being loaded by that import: it has
\* the names of a.m, and a.m is not among its unresolved star imports
C29_Witness ==
    /\ \E p \in processed : p.module = <<"a", "s">> /\ p.blk = 1 /\ p.i = 1 /\ ~p.raised
    /\ <<"a", "m">> \in DOMAIN analyzed
    /\ modules[<<"a", "m">>].gnames # {}
    /\ modules[<<"a", "m">>].gnames \subseteq modules[<<"a", "s">>].gnames
    /\ <<"a", "m">> \notin modules[<<"a", "s">>].stars

\* when the scan of M finishes a star import whose target is not a key of
\* modules, or is one without code, the target is among M's unresolved star
\* imports in the next state
UnresolvedStarIsKept ==
    (AtStar /\ ~(Top.target \in DOMAIN modules /\ modules[Top.target].code = "code"))
        => Top.target \in modules'[Top.name].stars

\* the failure records M.x of a registered M that has unresolved star imports
\* and does not bind x
UnboundInTainted ==
    {n \in DOMAIN bad_modules :
        /\ Len(n) > 1
        /\ Front(n) \in DOMAIN modules
        /\ modules[Front(n)].stars # {}
        /\ Last(n) \notin modules[Front(n)].gnames}

\* C30, as claimed: a star import whose target has no code, or is not
\* registered, adds the target to M's unresolved star imports; and a failed
\* import of a name M.x that M does not bind is then in the maybe-missing list
\* and not in the missing list.
C30_UnresolvedStarMakesMaybeMissing ==
    /\ [][UnresolvedStarIsKept]_vars
    /\ []((report.valid /\ Idle) => \A n \in UnboundInTainted : Listed(n) = "maybe")

\* C30, amended: the same, except that M.x is in the missing list when M
\* itself is among the importers that failed to import it, and in neither
\* list when it is excluded.
C30_UnresolvedStarMakesMaybeMissingUnlessOwnImport ==
    /\ [][UnresolvedStarIsKept]_vars
    /\ []((report.valid /\ Idle) =>
              \A n \in UnboundInTainted :
                  Listed(n) = IF n \in excludes THEN "neither"
                              ELSE IF Front(n) \in bad_modules[n] THEN "missing"
                              ELSE "maybe")

\* a has done `from sys import *` (a builtin), a.m `from .s import *` with no
\* a.s; a.foo, which a does not bind, is listed maybe-missing
C30_Witness ==
    /\ Idle
    /\ report.valid
    /\ {<<"sys">>, <<"a">>, <<"a", "m">>} \subseteq DOMAIN modules
    /\ modules[<<"sys">>].code = "None"
    /\ <<"sys">> \in modules[<<"a">>].stars
    /\ ~Registered(<<"a", "s">>)
    /\ <<"a", "s">> \in modules[<<"a", "m">>].stars
    /\ <<"a", "foo">> \in UnboundInTainted
    /\ Listed(<<"a", "foo">>) = "maybe"

-----------------------------------------------------------------------------
(* Star imports, at the end of an operation. *)

\* the pairs <<M, T>> of registered units such that M has processed a
\* `from T import *` that did not raise, and T has code
StarImported ==
    {<<p.module, TargetOf(p.module, CodeOf(tree, p.module)[p.blk].imports[p.i])>> :
        p \in {q \in processed :
                  LET d == CodeOf(tree, q.module)[q.blk].imports[q.i]
                  IN  /\ have_star(d)
                      /\ ~q.raised
                      /\ Resolvable(q.module, d)
                      /\ q.module \in DOMAIN modules
                      /\ TargetOf(q.module, d) \in DOMAIN modules
                      /\ modules[TargetOf(q.module, d)].code = "code"}}

\* C31: once an operation has returned, every unit M that star-imported a
\* unit T with code has all the bound names T has now.
C31_StarImporterHasAllNamesOfItsTarget ==
    (Idle /\ calls >= 1) =>
        \A mt \in StarImported : modules[mt[2]].gnames \subseteq modules[mt[1]].gnames

-----------------------------------------------------------------------------
(* Fromlists of targets that are not packages. *)

\* the pairs <<d, T>> of a processed directive d with fromlist items whose
\* import returned, and its target T, when T is not a package
FromNonPackage ==
    {<<CodeOf(tree, p.module)[p.blk].imports[p.i],
       TargetOf(p.module, CodeOf(tree, p.module)[p.blk].imports[p.i])>> :
        p \in {q \in processed :
                  LET d == CodeOf(tree, q.module)[q.blk].imports[q.i]
                  IN  /\ StripStar(d.fromlist) # << >>
                      /\ ~q.raised
                      /\ Resolvable(q.module, d)
                      /\ TargetOf(q.module, d) \in DOMAIN modules
                      /\ ~modules[TargetOf(q.module, d)].path}}

\* C32: _handle_fromlist only ever runs for a package; the scan of a directive
\* whose import returned a module that is not a package adds no failure
\* record; and for a processed directive `from T import x` with T not a
\* package, T.x was never looked for and has no failure record.
C32_NoSubmoduleOfANonPackage ==
    /\ [](\A k \in 1..Len(stack) :
              (stack[k].fn = "__import__" /\ stack[k].pc \in {"fromlist", "item"})
                  => modules[stack[k].name].path)
    /\ [][(/\ Running("_scan_code", "imported")
           /\ ~Raised(ret)
           /\ StripStar(CodeOf(tree, Top.name)[Top.blk].imports[Top.i].fromlist) # << >>
           /\ ~modules[Top.target].path) => bad_modules' = bad_modules]_vars
    /\ [](\A dt \in FromNonPackage :
              \A x \in SeqToSet(StripStar(dt[1].fromlist)) :
                  Append(dt[2], x) \notin DOMAIN bad_modules \cup looked_up)

\* the package scenario has ended: `from sys import version_info`,
\* `from a.module import x` (x is bound in a.module) and
\* `from a.c import sillyname` have been processed
C32_Witness ==
    /\ tree = [scenario |-> "package"]
    /\ Idle
    /\ calls = 1
    /\ {<<"sys">>, <<"a", "module">>, <<"a", "c">>} \subseteq DOMAIN modules
    /\ {dt[2] : dt \in FromNonPackage} = {<<"sys">>, <<"a", "module">>, <<"a", "c">>}
    /\ "x" \in modules[<<"a", "module">>].gnames
    /\ bad_modules # << >>

-----------------------------------------------------------------------------
(* import_as_module with a fromlist: sessions whose public operations pass *)
(* a fromlist, with or without an item that is not a str.                  *)

FromlistTrees == {t \in Trees : t.a = 1 /\ t.s = 1 /\ t.b = 1}
FromlistNames == {<<"a">>, <<"a", "m">>, <<"sys">>, <<"z">>}
Fromlists == {<<NonString>>, <<"m", NonString>>, <<NonString, "m">>, <<"foo", "m">>}

InitFromlist ==
    /\ tree \in FromlistTrees
    /\ excludes = {}
    /\ modules = << >>
    /\ bad_modules = << >>
    /\ key_order = << >>
    /\ stack = << >>
    /\ ret = NoValue
    /\ calls = 0
    /\ outcome = NoValue
    /\ report = NoReport
    /\ analyzed = << >>
    /\ looked_up = {}
    /\ in_cycle = {}
    /\ history = << >>
    /\ processed = {}
    /\ sys = HostSys
    /\ lock = NoThread
    /\ threads = [t \in Threads |-> IdleThread]
    /\ dicts = HostDicts
    /\ NoRewriting

NextFromlist ==
    \/ \E name \in FromlistNames, fromlist \in Fromlists : ImportAsModuleFromlist(name, fromlist)
    \/ Step
    \/ AnyMissingMaybe

SpecFromlist == InitFromlist /\ [][NextFromlist]_vars

\* C33: once an operation whose fromlist has an item that is not a str has
\* ended, and its target is registered, it has raised TypeError (and no
\* resolution failure); a failure record is only ever added by the scan of a
\* unit, under that unit's name; and another operation can follow.
C33_NonStringItemIsAHardError ==
    /\ []((/\ Idle /\ history # << >>
           /\ NonString \in SeqToSet(history[Len(history)].fromlist)
           /\ history[Len(history)].name \in DOMAIN modules)
              => outcome.kind = "TypeError")
    /\ [][bad_modules' # bad_modules =>
              /\ stack # << >> /\ Top.fn = "_scan_code"
              /\ \A k \in DOMAIN bad_modules' :
                     bad_modules'[k] \ (IF k \in DOMAIN bad_modules THEN bad_modules[k] ELSE {})
                         \subseteq {Top.name}]_vars
    /\ []((Idle /\ calls < MaxCalls) => ENABLED (\E name \in FromlistNames, fromlist \in Fromlists :
                                                    ImportAsModuleFromlist(name, fromlist)))

-----------------------------------------------------------------------------
(* The search path of a package and the analysis of its __init__. *)

\* C34, as claimed: in no state does a record have its search path while the
\* analysis of its unit has not begun.
C34_SearchPathOnlyAfterInitIsAnalyzed ==
    \A n \in DOMAIN modules : modules[n].path => n \in DOMAIN analyzed

\* C34, amended: a record has its search path from its registration on, if and
\* only if its unit is a package; when exec_module is about to analyze the
\* __init__ of a package, the record is registered, has its search path and
\* has no code yet.
C34_SearchPathIsSetAtRegistration ==
    /\ \A n \in DOMAIN modules : modules[n].path = (find_spec(tree, n).kind = "package")
    /\ (Running("_gcd_import", "exec") /\ find_spec(tree, Top.name).kind = "package") =>
           /\ Top.name \in DOMAIN modules
           /\ modules[Top.name].path
           /\ modules[Top.name].code = "unset"
           /\ Top.name \notin DOMAIN analyzed

\* b/__init__.py (`from . import c`) is being analyzed and b.c is registered:
\* the import of b.c found b with its search path
C34_Witness ==
    /\ tree.b = 3
    /\ Initializing(<<"b">>)
    /\ modules[<<"b">>].path
    /\ <<"b", "c">> \in DOMAIN modules
    /\ <<"b", "c">> \in looked_up

-----------------------------------------------------------------------------
(* The keys of bad_modules. *)

\* key k, recorded for importer m, is the absolute name of the target of a
\* directive of m (raw name, level and package of m), or that name followed
\* by one of the directive's fromlist items
AbsoluteKeyOf(k, m) ==
    \E d \in DirectivesOf(tree, m) :
        /\ Resolvable(m, d)
        /\ \/ k = TargetOf(m, d)
           \/ \E x \in SeqToSet(StripStar(d.fromlist)) : k = Append(TargetOf(m, d), x)

\* C35: every key of bad_modules is, for each of its importers, the absolute
\* name of the target of one of the importer's directives (or a fromlist item
\* of it), also when the level of the directive goes beyond the top level.
C35_KeysAreAbsoluteNames ==
    \A k \in DOMAIN bad_modules : \A m \in bad_modules[k] : AbsoluteKeyOf(k, m)

-----------------------------------------------------------------------------
(* Sessions in different threads. *)

\* C36: the modules of a session hold only what operations of that session
\* have registered, and its bad_modules only what they have recorded.
C36_NoRecordCrossesSessions ==
    \A t \in Threads :
        /\ dicts[<<"self", t>>] \subseteq {t}
        /\ dicts[<<"bad", t>>] \subseteq {t}

\* one session has registered modules and recorded failures and its thread is
\* waiting for the lock again, while the operation of the other one, which
\* has done the same, is still inside its with statement
C36_Witness ==
    \E t1, t2 \in Threads :
        /\ t1 # t2
        /\ dicts[<<"self", t1>>] = {t1} /\ dicts[<<"bad", t1>>] = {t1}
        /\ dicts[<<"self", t2>>] = {t2} /\ dicts[<<"bad", t2>>] = {t2}
        /\ threads[t1].pc = "acquire" /\ threads[t1].ops = 1
        /\ threads[t2].pc = "restore"
        /\ lock = t2

-----------------------------------------------------------------------------
(* Registered names and the missing list. *)

\* C37: in a report made after a public operation has ended, no key of
\* modules is in the missing list.
C37_NoRegisteredNameIsMissing ==
    (Idle /\ calls >= 1 /\ report.valid) =>
        \A n \in DOMAIN modules : ~InList(report.missing, n)

-----------------------------------------------------------------------------
(* One session whose public operation runs, inside the with statement of   *)
(* _patch_sys, the whole of importlib.__import__: finders, loaders and     *)
(* scans of every unit it discovers.                                       *)

InitNested ==
    /\ tree \in {t \in Trees : t.a = 1 /\ t.s = 1}
    /\ excludes = {}
    /\ modules = << >>
    /\ bad_modules = << >>
    /\ key_order = << >>
    /\ stack = << >>
    /\ ret = NoValue
    /\ calls = 0
    /\ outcome = NoValue
    /\ report = NoReport
    /\ analyzed = << >>
    /\ looked_up = {}
    /\ in_cycle = {}
    /\ history = << >>
    /\ processed = {}
    /\ sys = HostSys
    /\ lock = NoThread
    /\ threads = [t \in Threads |-> IdleThread]
    /\ dicts = HostDicts
    /\ NoRewriting

\* the body of the with statement of import_as_module starts:
\* importlib.__import__(name, globals_, globals_, fromlist, level)
BodyImport(t, name) ==
    /\ threads[t].pc = "body"
    /\ threads[t].op = "import_as_module"
    /\ calls = threads[t].ops
    /\ ImportAsModule(name)

\* importlib.__import__ has returned or raised: the with statement is left
BodyEnd(t) ==
    /\ threads[t].pc = "body"
    /\ stack = << >>
    /\ calls = threads[t].ops + 1
    /\ threads' = [threads EXCEPT ![t] =
                       [@ EXCEPT !.pc = "restore", !.k = Len(PatchedAttrs),
                                 !.raised = Raised(outcome)]]
    /\ UNCHANGED <<sys, lock, dicts, session>>

NextNested ==
    \/ CallOperation(1, "import_as_module")
    \/ Acquire(1)
    \/ PatchGet(1)
    \/ PatchSet(1)
    \/ \E name \in Entries : BodyImport(1, name)
    \/ Step
    \/ BodyEnd(1)
    \/ Restore(1)
    \/ Release(1)

SpecNested == InitNested /\ [][NextNested]_vars

\* C38: the lock changes hands only when the operation enters its with
\* statement and when it leaves it; while importlib.__import__ and all it
\* calls are running, the thread of the operation holds the lock and stands in
\* the body, and no step of theirs touches the lock or the position of the
\* thread; whenever the thread is about to acquire the lock, the lock is free.
C38_LockIsAcquiredOncePerOperation ==
    /\ [][lock' # lock =>
              \/ threads[1].pc = "acquire" /\ lock = NoThread /\ lock' = 1
              \/ threads[1].pc = "release" /\ lock = 1 /\ lock' = NoThread]_vars
    /\ [](stack # << >> => (lock = 1 /\ threads[1].pc = "body"))
    /\ [][stack # << >> => (lock' = lock /\ threads' = threads)]_vars
    /\ [](threads[1].pc = "acquire" => lock = NoThread)

\* the scan of a.p.q, reached through a.p, a.m and a, is waiting for the
\* import of one of its directives, in the second operation of the session
C38_Witness ==
    /\ Len(stack) > 8
    /\ Top.fn = "_gcd_import"
    /\ \E k \in 1..Len(stack) : stack[k].fn = "_scan_code" /\ stack[k].name = <<"a", "p", "q">>
    /\ \E k \in 1..Len(stack) : stack[k].fn = "_scan_code" /\ stack[k].name = <<"a", "m">>
    /\ lock = 1
    /\ threads[1].ops = 1
    /\ threads[1].pc = "body"

-----------------------------------------------------------------------------
(* The release of the lock. *)

\* Every thread that has called an operation goes on running: the interpreter
\* switches between the threads, and a waiting Lock.acquire returns once the
\* lock is free and stays free.  Nothing obliges a thread to call an operation.
FairSpecPatch ==
    /\ SpecPatch
    /\ \A t \in Threads :
           WF_vars(Acquire(t) \/ PatchGet(t) \/ PatchSet(t) \/ Body(t) \/ Restore(t) \/ Release(t))

\* C39: the step that ends an operation, whether it returned or raised, frees
\* the lock; when no thread is inside a with statement the lock is free; and
\* a thread that waits for the lock gets inside its with statement.
C39_LockIsReleasedOnEveryExit ==
    /\ [][\A t \in Threads :
              (threads[t].pc = "release" /\ threads'[t].pc = "idle") => lock' = NoThread]_vars
    /\ []((\A t \in Threads : ~InRegion(t)) => lock = NoThread)
    /\ \A t \in Threads : (threads[t].pc = "acquire") ~> InRegion(t)

\* a file operation that raised is about to leave its with statement, after
\* an operation of the same thread has ended, while the other thread, which
\* has ended an operation too, waits for the lock
C39_Witness ==
    \E t1, t2 \in Threads :
        /\ threads[t1].pc = "release" /\ lock = t1
        /\ threads[t1].op = "_import_from_file" /\ threads[t1].raised
        /\ threads[t1].ops = 1
        /\ threads[t2].pc = "acquire"
        /\ threads[t2].ops = 1

-----------------------------------------------------------------------------
(* Unresolved star imports are inherited. *)

\* C40: when the scan of M finishes a star import whose target T is a key of
\* modules, then in the next state M's unresolved star imports include all
\* those T has at that moment, so that M has some whenever T has, whether T
\* has code or not.
C40_UnresolvedStarImportsAreInherited ==
    [][(AtStar /\ Top.target \in DOMAIN modules) =>
           /\ modules[Top.target].stars \subseteq modules'[Top.name].stars
           /\ modules[Top.target].stars # {} => modules'[Top.name].stars # {}]_vars

\* a.s has done `from a.m import *`; a.m has code and had got sys, a builtin,
\* from b by `from b import *` (b has code too): sys is among the unresolved
\* star imports of a.s, and neither a.m nor b is
C40_Witness ==
    /\ \E p \in processed : p.module = <<"a", "s">> /\ p.blk = 1 /\ p.i = 1 /\ ~p.raised
    /\ {<<"a", "m">>, <<"b">>, <<"sys">>} \subseteq DOMAIN modules
    /\ modules[<<"a", "m">>].code = "code"
    /\ modules[<<"b">>].code = "code"
    /\ <<"sys">> \in modules[<<"b">>].stars
    /\ <<"sys">> \in modules[<<"a", "m">>].stars
    /\ modules[<<"a", "s">>].stars = {<<"sys">>}

====
